---- MODULE Spec2Model ----
(***************************************************************************)
(* Model of the plan executor of PlExA (src/src/executor.cpp and           *)
(* src/include/executor.h).  The executor drives the solution of a         *)
(* timeline-based planner through time: tick() dispatches the atoms whose  *)
(* pulses are due, listeners may veto a start or an end by asking for a    *)
(* delay, the delay becomes a new lower bound and the solver is asked for  *)
(* a new solution.                                                         *)
(*                                                                         *)
(* Time is rational in the code; here every time point is an integer and   *)
(* units_per_tick is 1 or 2, so that a pulse may fall strictly inside a    *)
(* tick window (the integer grid is the rational grid scaled).             *)
(*                                                                         *)
(* The solver is an external collaborator: solve() is modelled as the      *)
(* choice of any assignment of the time points that satisfies the bounds   *)
(* asserted to the linear theory, within the deadline MaxVal of the        *)
(* planning problem.  All time expressions are of the real type.           *)
(***************************************************************************)
EXTENDS Integers, Sequences, FiniteSets, TLC

\* bound: the deadline of the planning problem (largest admissible time point)
MaxVal == 2

\* the atoms of the planning problem: "a" is an impulse, "b" an interval
Atoms == {"a", "b"}
\* the names of the time expressions of an atom (RATIO_AT, RATIO_START, RATIO_END)
Names == {"at", "start", "end"}
\* the delays a listener may ask for
Delays == {0, 2}
\* the values units_per_tick is constructed with
TickUnits == {1, 2}
\* rational::POSITIVE_INFINITY: above every time point of the model
PosInf == MaxVal + 100

VARIABLES
    state,                 \* executor_state
    running,               \* the execution state
    pending_requirements,  \* adapt() was called and the problem not yet re-solved
    current_time,          \* the current time in plan units
    units_per_tick,        \* the number of plan units for each tick
    executing,             \* the atoms currently executing
    adaptations,           \* for each atom and expression, the stored bounds
    dont_start,            \* atom -> delay: starting atoms not ready to start
    dont_end,              \* atom -> delay: ending atoms not ready to end
    s_atms,                \* pulse -> atoms starting at that pulse
    e_atms,                \* pulse -> atoms ending at that pulse
    pulses,                \* all the pulses of the plan
    solved,                \* the solver holds a solution
    inconsistent,          \* the last solve ended in inconsistent_problem
    sigma,                 \* the atoms whose sigma literal is true (active)
    constant,              \* the atoms whose time expressions are solver constants
    val,                   \* the solver's value of every time expression
    horizon,               \* the solver's value of "horizon"
    lra,                   \* the bounds asserted to the linear theory
    pc,                    \* position inside tick(): "idle", "loop", "absorb"
    ret,                   \* how the last call ended: "none" if it was not a tick()
    log,                   \* the notifications of the last call, in order
    started,               \* the atoms a start notification was sent for
    ended,                 \* the atoms an end notification was sent for
    inflight,              \* the calls in progress besides the tick: the start/pause
                           \* calls of other threads that have written running and
                           \* not yet state, the call a listener made from inside a
                           \* notification
    sat,                   \* slv.get_sat_core().value of every variable of the theory
    bool_bounds,           \* atom -> the bool_bounds stored for its bool expression
    recorded,              \* the clauses the theory recorded in its last propagate
    cnfl,                  \* the conflict clause of the theory
    reasserted,            \* the propagate_bounds calls of the last propagate
    prop_ret,              \* what the last propagate returned, "none" before it
    created,               \* atom -> when flaw_created ran for it and the clause it
                           \* added, NoFlaw before
    timer                  \* the ratio::time::timer: its fields executing, th and
                           \* tick_time, the position of the client inside start()
                           \* or stop(), and the threads it has created

theory_vars == <<sat, bool_bounds, recorded, cnfl, reasserted, prop_ret>>

vars == <<state, running, pending_requirements, current_time, units_per_tick,
          executing, adaptations, dont_start, dont_end, s_atms, e_atms, pulses,
          solved, sigma, constant, val, horizon, lra, pc, ret, log,
          started, ended, inconsistent, inflight, theory_vars, created, timer>>

exec_vars == <<state, running, pending_requirements, current_time, units_per_tick,
               executing, adaptations, dont_start, dont_end, s_atms, e_atms, pulses>>
solver_vars == <<solved, sigma, constant, val, horizon, lra>>
timeline_vars == <<s_atms, e_atms, pulses>>
hist_vars == <<started, ended>>

----------------------------------------------------------------------------
\* helpers

Max(x, y) == IF x >= y THEN x ELSE y
Min(x, y) == IF x <= y THEN x ELSE y
MinOf(S) == CHOOSE x \in S : \A y \in S : x <= y
MaxOf(S) == CHOOSE x \in S : \A y \in S : x >= y

\* slv.is_impulse / slv.is_interval
is_impulse(a) == a = "a"
is_interval(a) == a = "b"

\* the expression delayed by dont_start_yet: AT for an impulse, START otherwise
StartName(a) == IF is_impulse(a) THEN "at" ELSE "start"
\* the expression delayed by dont_end_yet and frozen at the end
EndName(a) == IF is_impulse(a) THEN "at" ELSE "end"

NoBounds == [has |-> FALSE, lb |-> 0, ub |-> 0]
NoValue == [at |-> 0, start |-> 0, end |-> 0]
FreeLra == [n \in Names |-> [lb |-> 0, ub |-> PosInf]]

\* utils::lbool
LBool == {"True", "False", "Undefined"}
\* the SAT variables: the execution variable xi, the sigma_xi of each atom's
\* adaptation and the variable of the literal backing each atom's bool
\* expression
xi_var == <<"xi", "">>
sigma_xi_var(a) == <<"sigma_xi", a>>
bool_var(a) == <<"bool", a>>
SatVars == {xi_var} \cup {sigma_xi_var(a) : a \in Atoms} \cup {bool_var(a) : a \in Atoms}

\* a notification, as a listener receives it
Event(k, t, as, s) == [k |-> k, t |-> t, atoms |-> as, s |-> s]
StateEvent(s) == Event("state", 0, {}, s)

----------------------------------------------------------------------------
\* the solver (external collaborator)

\* the assignments of atom a's time points that satisfy the bounds b; a new
\* solution moves no time point of the old one to an earlier time
AtomSolutions(a, sg, cs, old, b) ==
    IF a \notin sg \/ a \in cs THEN {old[a]}
    ELSE IF is_impulse(a)
    THEN {[NoValue EXCEPT !.at = v] :
            v \in Max(old[a].at, b[a].at.lb) .. Min(b[a].at.ub, MaxVal)}
    ELSE {[at |-> 0, start |-> x[1], end |-> x[2]] :
            x \in {y \in (Max(old[a].start, b[a].start.lb) .. Min(b[a].start.ub, MaxVal))
                         \X (Max(old[a].end, b[a].end.lb) .. Min(b[a].end.ub, MaxVal)) :
                     y[1] <= y[2]}}

\* slv.solve(): the solutions the solver may return; empty if the problem is
\* inconsistent
Solutions(sg, cs, old, b) ==
    {[x \in Atoms |-> IF x = "a" THEN va ELSE vb] :
        va \in AtomSolutions("a", sg, cs, old, b),
        vb \in AtomSolutions("b", sg, cs, old, b)}

\* the end point of an atom
EndValue(a, v) == v[a][EndName(a)]
StartValue(a, v) == v[a][StartName(a)]

\* the value of "horizon": never before the end of an active atom
HorizonOf(v, sg, old) == MaxOf({old} \cup {EndValue(a, v) : a \in sg})

\* the bounds the theory re-asserts from the adaptations when xi is decided
\* after the solver went back to root level
Reassert(ad) ==
    [a \in Atoms |-> [n \in Names |->
        IF ad[a][n].has THEN [lb |-> ad[a][n].lb, ub |-> ad[a][n].ub]
        ELSE [lb |-> 0, ub |-> PosInf]]]

----------------------------------------------------------------------------
\* executor::build_timelines

InStart(a, v, sg, now) ==
    /\ a \in sg
    /\ IF is_impulse(a) THEN ~(v[a].at < now)
       ELSE ~(v[a].end < now) /\ v[a].start >= now

\* mutant of InEnd: the atoms that ended in the past are kept
InEnd_KeepPast(a, v, sg, now) == a \in sg

InEnd(a, v, sg, now) ==
    /\ a \in sg
    /\ IF is_impulse(a) THEN ~(v[a].at < now) ELSE ~(v[a].end < now)

BuildStart(v, sg, now) ==
    LET as == {a \in Atoms : InStart(a, v, sg, now)}
    IN  [t \in {StartValue(a, v) : a \in as} |-> {a \in as : StartValue(a, v) = t}]

BuildEnd(v, sg, now) ==
    LET as == {a \in Atoms : InEnd(a, v, sg, now)}
    IN  [t \in {EndValue(a, v) : a \in as} |-> {a \in as : EndValue(a, v) = t}]

BuildPulses(v, sg, now) == DOMAIN BuildStart(v, sg, now) \cup DOMAIN BuildEnd(v, sg, now)

build_timelines(v, sg) ==
    /\ s_atms' = BuildStart(v, sg, current_time)
    /\ e_atms' = BuildEnd(v, sg, current_time)
    /\ pulses' = BuildPulses(v, sg, current_time)
    /\ inconsistent' = FALSE

\* mutant of clear_timelines: the timelines of the last solution are kept
clear_timelines_Keep ==
    /\ UNCHANGED <<s_atms, e_atms, pulses>>
    /\ inconsistent' = TRUE

\* executor::inconsistent_problem, the timeline part
clear_timelines ==
    /\ s_atms' = <<>>
    /\ e_atms' = <<>>
    /\ pulses' = {}
    /\ inconsistent' = TRUE

\* executor::started_solving: the notifications it emits
started_solving(st) == IF st # "Reasoning" THEN <<StateEvent("Adapting")>> ELSE <<>>

\* executor::solution_found: the state it leaves
SolutionState == IF running THEN "Executing" ELSE "Idle"

----------------------------------------------------------------------------
\* ratio::time::timer

\* the number of start() calls of a run
MaxStarts == 2
\* tick_time and the invocations of a thread are counted up to MaxTicks
MaxTicks == MaxStarts + 1
\* the threads a timer creates, one for each start()
Threads == 1 .. MaxStarts

\* a timer before its first call, with executing = FALSE
NoTimer ==
    [executing |-> FALSE, th |-> 0, tick_time |-> 0,
     at |-> "idle", caller |-> "client", last |-> "none", starts |-> 0,
     thread |-> [i \in Threads |-> "unborn"],
     calls |-> [i \in Threads |-> 0]]

\* executor::flaw_created: the time of the call and the clause that guards
\* the adaptation, {not sigma(a), not xi, sigma_xi(a)}
NoFlaw == [time |-> -1, clause |-> {}]
new_flaw(a) ==
    [time |-> current_time,
     clause |-> {[var |-> <<"sigma", a>>, sign |-> FALSE], [var |-> xi_var, sign |-> FALSE],
                 [var |-> sigma_xi_var(a), sign |-> TRUE]}]

----------------------------------------------------------------------------
\* construction and the first solution

Init ==
    /\ state = "Reasoning"
    /\ running = FALSE
    /\ pending_requirements = FALSE
    /\ current_time = 0
    /\ units_per_tick \in TickUnits
    /\ executing = {}
    /\ adaptations = [a \in Atoms |-> [n \in Names |-> NoBounds]]
    /\ dont_start = <<>>
    /\ dont_end = <<>>
    /\ s_atms = <<>>
    /\ e_atms = <<>>
    /\ pulses = {}
    /\ solved = FALSE
    /\ sigma = {}
    /\ constant = {}
    /\ val = [a \in Atoms |-> NoValue]
    /\ horizon = 0
    /\ lra = [a \in Atoms |-> FreeLra]
    /\ pc = "idle"
    /\ ret = "none"
    /\ log = <<>>
    /\ started = {}
    /\ inconsistent = FALSE
    /\ inflight = {}
    /\ ended = {}
    /\ sat = [v \in SatVars |-> "Undefined"]
    /\ bool_bounds = [a \in Atoms |-> "none"]
    /\ recorded = {}
    /\ cnfl = {}
    /\ reasserted = {}
    /\ prop_ret = "none"
    /\ created = [a \in Atoms |-> NoFlaw]
    /\ timer = NoTimer

\* mutant of flaw_created: the lower bound is the origin of time
flaw_created_Origin(a) ==
    [n \in Names |-> IF n = StartName(a)
                     THEN [has |-> TRUE, lb |-> 0, ub |-> PosInf]
                     ELSE NoBounds]

\* executor::flaw_created: the adaptation of a new atom
flaw_created(a) ==
    [n \in Names |-> IF n = StartName(a)
                     THEN [has |-> TRUE, lb |-> current_time, ub |-> PosInf]
                     ELSE NoBounds]

\* The problem is read and solved for the first time: the solver creates the
\* flaws of the atoms (flaw_created), then reports started_solving and
\* solution_found.
FirstSolve ==
    /\ pc = "idle"
    /\ ~solved
    /\ \E sg \in SUBSET Atoms : \E cs \in {c \in SUBSET sg : Cardinality(c) <= 1} :
       \E v \in Solutions(sg, {}, val, Reassert([a \in Atoms |-> flaw_created(a)])) :
          /\ sigma' = sg
          /\ constant' = cs
          /\ val' = v
          /\ horizon' = HorizonOf(v, sg, 0)
          /\ build_timelines(v, sg)
    /\ adaptations' = [a \in Atoms |-> flaw_created(a)]
    /\ lra' = Reassert(adaptations')
    /\ solved' = TRUE
    /\ state' = SolutionState
    /\ log' = <<StateEvent(SolutionState)>>
    /\ created' = [a \in Atoms |-> new_flaw(a)]
    /\ UNCHANGED timer
    /\ UNCHANGED <<running, pending_requirements, current_time, units_per_tick,
                   executing, dont_start, dont_end, pc, ret, hist_vars, inflight, theory_vars>>

----------------------------------------------------------------------------
\* commands

\* The client may call the executor: no call is in progress, and no call has
\* thrown (an executor whose tick() threw is not used any more).
Callable == pc = "idle" /\ ret # "raised"

start_execution ==
    /\ Callable
    /\ running' = TRUE
    /\ state' = "Executing"
    /\ log' = <<StateEvent("Executing")>>
    /\ ret' = "none"
    /\ UNCHANGED <<pending_requirements, current_time, units_per_tick, executing,
                   adaptations, dont_start, dont_end, timeline_vars, solver_vars,
                   pc, hist_vars, inflight, theory_vars, created, timer>>
    /\ UNCHANGED inconsistent

\* mutant of pause_execution: the running flag is not cleared
pause_execution_KeepsRunning ==
    /\ Callable
    /\ running' = running
    /\ state' = "Idle"
    /\ log' = <<StateEvent("Idle")>>
    /\ ret' = "none"
    /\ UNCHANGED <<pending_requirements, current_time, units_per_tick, executing,
                   adaptations, dont_start, dont_end, timeline_vars, solver_vars,
                   pc, hist_vars, inflight, theory_vars, created, timer>>
    /\ UNCHANGED inconsistent

pause_execution ==
    /\ Callable
    /\ running' = FALSE
    /\ state' = "Idle"
    /\ log' = <<StateEvent("Idle")>>
    /\ ret' = "none"
    /\ UNCHANGED <<pending_requirements, current_time, units_per_tick, executing,
                   adaptations, dont_start, dont_end, timeline_vars, solver_vars,
                   pc, hist_vars, inflight, theory_vars, created, timer>>
    /\ UNCHANGED inconsistent

\* mutant of Insert: the delay of a key already present is added to
Insert_Accumulate(m, req) ==
    [x \in DOMAIN m \cup DOMAIN req |->
        IF x \in DOMAIN m
        THEN (IF x \in DOMAIN req THEN m[x] + req[x] ELSE m[x])
        ELSE req[x]]

\* std::unordered_map::insert: the keys already present keep their delay
Insert(m, req) ==
    [x \in DOMAIN m \cup DOMAIN req |-> IF x \in DOMAIN m THEN m[x] ELSE req[x]]

\* std::unordered_map::erase of the keys in P
Erase(m, P) == [x \in DOMAIN m \ P |-> m[x]]

\* what a listener told of the atoms S may pass to dont_start_yet or to
\* dont_end_yet: nothing, or one of these atoms with a delay
Requests(S) == {<<>>} \cup {[x \in {a} |-> d] : a \in S, d \in Delays}

dont_start_yet(req) ==
    /\ dont_start' = Insert(dont_start, req)

dont_end_yet(req) ==
    /\ dont_end' = Insert(dont_end, req)

\* executor::adapt: back to root level (the asserted bounds are retracted),
\* the script is read, the requirements are pending
adapt ==
    /\ Callable
    /\ solved
    /\ lra' = [a \in Atoms |-> FreeLra]
    /\ pending_requirements' = TRUE
    /\ log' = <<>>
    /\ ret' = "none"
    /\ UNCHANGED <<state, running, current_time, units_per_tick, executing,
                   adaptations, dont_start, dont_end, timeline_vars,
                   solved, sigma, constant, val, horizon, pc, hist_vars, inflight, theory_vars, created, timer>>
    /\ UNCHANGED inconsistent

\* executor::failure of an executing atom a, the solver finds another plan:
\* the conflict makes a inactive (backtrack_analyze_and_backjump), then
\* solve() reports started_solving and solution_found
failure(a) ==
    /\ Callable
    /\ ~inconsistent
    /\ a \in executing \cap sigma
    /\ sigma' = sigma \ {a}
    /\ \E v \in Solutions(sigma', constant, val, lra) :
          /\ val' = v
          /\ horizon' = HorizonOf(v, sigma', horizon)
          /\ build_timelines(v, sigma')
    /\ state' = SolutionState
    /\ log' = started_solving(state) \o <<StateEvent(SolutionState)>>
    /\ ret' = "none"
    /\ UNCHANGED <<running, pending_requirements, current_time, units_per_tick,
                   executing, adaptations, dont_start, dont_end, solved, constant,
                   lra, pc, hist_vars, inflight, theory_vars, created, timer>>

\* executor::failure, the conflict cannot be analyzed (the atom cannot be
\* made inactive): failure() throws before solve() is called
failureNoBackjump(a) ==
    /\ Callable
    /\ a \in executing \cap sigma
    /\ log' = <<>>
    /\ ret' = "raised"
    /\ UNCHANGED <<exec_vars, solver_vars, pc, hist_vars, inflight, theory_vars, created, timer>>
    /\ UNCHANGED inconsistent

\* executor::failure, the solver finds no other plan (started_solving,
\* then inconsistent_problem): failure() throws
failureUnsolvable(a) ==
    /\ Callable
    /\ a \in executing \cap sigma
    /\ clear_timelines
    /\ state' = "Failed"
    /\ log' = started_solving(state) \o <<StateEvent("Failed")>>
    /\ ret' = "raised"
    /\ UNCHANGED <<running, pending_requirements, current_time, units_per_tick,
                   executing, adaptations, dont_start, dont_end, solver_vars, pc,
                   hist_vars, inflight, theory_vars, created, timer>>

----------------------------------------------------------------------------
\* executor::tick

\* mutant of TickEnter: the running flag is not looked at
TickEnter_Always ==
    /\ pc' = "loop"
    /\ ret' = "active"

\* tick() enters the loop if the executor is running, and returns if not
TickEnter ==
    /\ pc' = IF running THEN "loop" ELSE "idle"
    /\ ret' = IF running THEN "active" ELSE "early"

\* tick() with no pending requirements
TickBegin ==
    /\ Callable
    /\ solved
    /\ current_time <= MaxVal
    /\ ~pending_requirements
    /\ log' = <<>>
    /\ TickEnter
    /\ UNCHANGED <<exec_vars, solver_vars, hist_vars, inflight, theory_vars, created, timer>>
    /\ UNCHANGED inconsistent

\* mutant of TickBeginSolved: the requirements stay pending
TickBeginSolved_StaysPending ==
    /\ Callable
    /\ solved
    /\ current_time <= MaxVal
    /\ pending_requirements
    /\ ~inconsistent
    /\ pending_requirements' = TRUE
    /\ lra' = Reassert(adaptations)
    /\ \E v \in Solutions(sigma, constant, val, lra') :
          /\ val' = v
          /\ horizon' = HorizonOf(v, sigma, horizon)
          /\ build_timelines(v, sigma)
    /\ state' = SolutionState
    /\ log' = started_solving(state) \o <<StateEvent(SolutionState)>>
    /\ TickEnter
    /\ UNCHANGED <<running, current_time, units_per_tick, executing, adaptations,
                   dont_start, dont_end, solved, sigma, constant, hist_vars, inflight, theory_vars, created, timer>>

\* tick() with pending requirements: the problem is solved again and the
\* solver finds a solution (started_solving, then solution_found); a problem
\* found inconsistent has no solution any more
TickBeginSolved ==
    /\ Callable
    /\ solved
    /\ current_time <= MaxVal
    /\ pending_requirements
    /\ ~inconsistent
    /\ pending_requirements' = FALSE
    /\ lra' = Reassert(adaptations)
    /\ \E v \in Solutions(sigma, constant, val, lra') :
          /\ val' = v
          /\ horizon' = HorizonOf(v, sigma, horizon)
          /\ build_timelines(v, sigma)
    /\ state' = SolutionState
    /\ log' = started_solving(state) \o <<StateEvent(SolutionState)>>
    /\ TickEnter
    /\ UNCHANGED <<running, current_time, units_per_tick, executing, adaptations,
                   dont_start, dont_end, solved, sigma, constant, hist_vars, inflight, theory_vars, created, timer>>

\* tick() with pending requirements that make the problem inconsistent
\* (started_solving, then inconsistent_problem); what the script asks for is
\* an input, and the result of solve() is not looked at
TickBeginInconsistent ==
    /\ Callable
    /\ solved
    /\ current_time <= MaxVal
    /\ pending_requirements
    /\ pending_requirements' = FALSE
    /\ lra' = Reassert(adaptations)
    /\ clear_timelines
    /\ state' = "Failed"
    /\ log' = started_solving(state) \o <<StateEvent("Failed")>>
    /\ TickEnter
    /\ UNCHANGED <<running, current_time, units_per_tick, executing, adaptations,
                   dont_start, dont_end, solved, sigma, constant, val, horizon, hist_vars, inflight, theory_vars, created, timer>>

\* mutant of Due: a pulse at the current time is not yet due
Due_Strict(t, now) == t < now

\* mutant of Due: the pulses up to the end of the tick window are due
Due_Window(t, now) == t <= now + units_per_tick

\* the condition of the loop of tick(): the pulse t is due
Due(t, now) == t <= now

\* the loop of tick() has something to do
HasDue == pulses # {} /\ Due(MinOf(pulses), current_time)

\* the atoms starting / ending at pulse t
StartingAt(t) == IF t \in DOMAIN s_atms THEN s_atms[t] ELSE {}
EndingAt(t) == IF t \in DOMAIN e_atms THEN e_atms[t] ELSE {}

\* the starting and ending notifications of pulse t
NotifyStarting(lg, t) ==
    lg \o (IF t \in DOMAIN s_atms THEN <<Event("starting", t, s_atms[t], "")>> ELSE <<>>)
       \o (IF t \in DOMAIN e_atms THEN <<Event("ending", t, e_atms[t], "")>> ELSE <<>>)

\* The head of the loop: the listeners are told which atoms are about to
\* start and to end, and may answer with dont_start_yet / dont_end_yet.
NotifyStartingEnding ==
    /\ pc = "loop"
    /\ HasDue
    /\ log' = NotifyStarting(log, MinOf(pulses))
    /\ \E ds \in Requests(StartingAt(MinOf(pulses))) : dont_start_yet(ds)
    /\ \E de \in Requests(StartingAt(MinOf(pulses)) \cup EndingAt(MinOf(pulses))) :
          dont_end_yet(de)
    /\ pc' = "absorb"
    /\ UNCHANGED <<state, running, pending_requirements, current_time, units_per_tick,
                   executing, adaptations, timeline_vars, solver_vars, ret,
                   hist_vars, inflight, theory_vars, created, timer>>
    /\ UNCHANGED inconsistent

\* mutant of ReachedHorizon: the horizon must be before the current time
ReachedHorizon_Strict == horizon < current_time /\ DOMAIN dont_end = {}

\* mutant of ReachedHorizon: the pending end delays are not looked at
ReachedHorizon_IgnoreDontEnd == horizon <= current_time

\* the horizon has been reached
ReachedHorizon == horizon <= current_time /\ DOMAIN dont_end = {}

\* mutant of NotifyTick: the tick notification is sent before the others
NotifyTick_First(lg, fin, now) ==
    <<Event("tick", now, {}, "")>> \o lg
       \o (IF fin THEN <<StateEvent("Finished")>> ELSE <<>>)

\* mutant of NotifyTick: the tick notification is sent twice
NotifyTick_Twice(lg, fin, now) ==
    lg \o (IF fin THEN <<StateEvent("Finished")>> ELSE <<>>)
       \o <<Event("tick", now, {}, ""), Event("tick", now, {}, "")>>

\* the notifications that end tick()
NotifyTick(lg, fin, now) ==
    lg \o (IF fin THEN <<StateEvent("Finished")>> ELSE <<>>)
       \o <<Event("tick", now, {}, "")>>

\* The loop is over: the horizon is looked at, the time advances, the
\* listeners are told of the tick.
FinishTick ==
    /\ pc = "loop"
    /\ ~HasDue
    /\ state' = IF ReachedHorizon THEN "Finished" ELSE state
    /\ current_time' = current_time + units_per_tick
    /\ log' = NotifyTick(log, ReachedHorizon, current_time')
    /\ pc' = "idle"
    /\ ret' = "done"
    /\ UNCHANGED <<running, pending_requirements, units_per_tick, executing,
                   adaptations, dont_start, dont_end, timeline_vars, solver_vars, hist_vars, inflight, theory_vars, created, timer>>
    /\ UNCHANGED inconsistent

----------------------------------------------------------------------------
\* the body of the loop of tick(), after the starting/ending notifications

\* the atoms of pulse t the listeners do not want to start / to end yet
DelayedStart(t) == {a \in StartingAt(t) : a \in DOMAIN dont_start}
DelayedEnd(t) == {a \in EndingAt(t) : a \in DOMAIN dont_end}

\* mutant of AbsorbLb: the delay is not raised to units_per_tick
AbsorbLb_NoMax(v, d) == v + d

\* the new lower bound of an expression of value v delayed by d
AbsorbLb(v, d) == v + (IF units_per_tick > d THEN units_per_tick ELSE d)

\* the expression delayed on the start / end side of atom a
NameOf(a, side) == IF side = "start" THEN StartName(a) ELSE EndName(a)

\* mutant of UpdateLb: the upper bound is always taken from the solver
UpdateLb_SolverUb(b, lb, ub) == [has |-> TRUE, lb |-> lb, ub |-> ub]

\* bounds.emplace(xpr, nullptr) followed by the new bounds or the new lb
UpdateLb(b, lb, ub) ==
    IF b.has THEN [b EXCEPT !.lb = lb] ELSE [has |-> TRUE, lb |-> lb, ub |-> ub]

\* the adaptations after the delays of the atoms P have been stored
AbsorbStore(ad, P, side, delay) ==
    [a \in Atoms |->
        IF a \in P
        THEN [ad[a] EXCEPT ![NameOf(a, side)] =
                 UpdateLb(@, AbsorbLb(val[a][NameOf(a, side)], delay[a]),
                          lra[a][NameOf(a, side)].ub)]
        ELSE ad[a]]

\* lra_theory::set_lb: the bounds of the linear theory after the delays of P
AbsorbLra(l, P, side, delay) ==
    [a \in Atoms |->
        IF a \in P
        THEN [l[a] EXCEPT ![NameOf(a, side)].lb =
                 Max(@, AbsorbLb(val[a][NameOf(a, side)], delay[a]))]
        ELSE l[a]]

\* set_lb fails: the new lower bound is above the upper bound
Conflict(a, n, d) == AbsorbLb(val[a][n], d) > lra[a][n].ub

\* the delay of atom a cannot be absorbed: its expression is a constant, or
\* the linear theory rejects the bound and the conflict cannot be analyzed
Stuck(a, n, d) == a \in constant \/ Conflict(a, n, d)

StuckStart(t) == {a \in DelayedStart(t) : Stuck(a, StartName(a), dont_start[a])}
StuckEnd(t) == {a \in DelayedEnd(t) : Stuck(a, EndName(a), dont_end[a])}

\* tick() throws execution_exception while absorbing the delays of pulse t.
\* The atoms are visited in the order of an unordered_set: any set P of
\* the other delayed atoms may have been absorbed before.
AbsorbRaise ==
    /\ pc = "absorb"
    /\ LET t == MinOf(pulses) IN
       /\ StuckStart(t) \cup StuckEnd(t) # {}
       /\ IF StuckStart(t) # {}
          THEN \E x \in StuckStart(t) : \E P \in SUBSET (DelayedStart(t) \ StuckStart(t)) :
                 /\ adaptations' = AbsorbStore(adaptations,
                                      IF x \in constant THEN P ELSE P \cup {x},
                                      "start", dont_start)
                 /\ lra' = AbsorbLra(lra, P, "start", dont_start)
                 /\ dont_start' = Erase(dont_start, P)
                 /\ dont_end' = dont_end
          ELSE \E x \in StuckEnd(t) : \E P \in SUBSET (DelayedEnd(t) \ StuckEnd(t)) :
                 /\ adaptations' = AbsorbStore(
                                      AbsorbStore(adaptations, DelayedStart(t),
                                                  "start", dont_start),
                                      IF x \in constant THEN P ELSE P \cup {x},
                                      "end", dont_end)
                 /\ lra' = AbsorbLra(AbsorbLra(lra, DelayedStart(t), "start", dont_start),
                                     P, "end", dont_end)
                 /\ dont_start' = Erase(dont_start, DelayedStart(t))
                 /\ dont_end' = Erase(dont_end, P)
    /\ pc' = "idle"
    /\ ret' = "raised"
    /\ UNCHANGED <<state, running, pending_requirements, current_time, units_per_tick,
                   executing, timeline_vars, solved, sigma, constant, val, horizon,
                   log, hist_vars, inflight, theory_vars, created, timer>>
    /\ UNCHANGED inconsistent

\* the delays of pulse t can all be absorbed
Absorbable(t) ==
    /\ DelayedStart(t) \cup DelayedEnd(t) # {}
    /\ StuckStart(t) \cup StuckEnd(t) = {}

AbsorbedStore(t) ==
    AbsorbStore(AbsorbStore(adaptations, DelayedStart(t), "start", dont_start),
                DelayedEnd(t), "end", dont_end)

AbsorbedLra(t) ==
    AbsorbLra(AbsorbLra(lra, DelayedStart(t), "start", dont_start),
              DelayedEnd(t), "end", dont_end)

\* The delays of pulse t are absorbed, the SAT core propagates and the
\* solver finds a new solution (started_solving, solution_found): the
\* timeline is rebuilt and the loop starts again (goto manage_tick).
AbsorbDelays ==
    /\ pc = "absorb"
    /\ LET t == MinOf(pulses) IN
       /\ Absorbable(t)
       /\ adaptations' = AbsorbedStore(t)
       /\ lra' = AbsorbedLra(t)
       /\ dont_start' = Erase(dont_start, DelayedStart(t))
       /\ dont_end' = Erase(dont_end, DelayedEnd(t))
    /\ \E v \in Solutions(sigma, constant, val, lra') :
          /\ val' = v
          /\ horizon' = HorizonOf(v, sigma, horizon)
          /\ build_timelines(v, sigma)
    /\ state' = SolutionState
    /\ log' = log \o started_solving(state) \o <<StateEvent(SolutionState)>>
    /\ pc' = "loop"
    /\ UNCHANGED <<running, pending_requirements, current_time, units_per_tick,
                   executing, solved, sigma, constant, ret, hist_vars, inflight, theory_vars, created, timer>>

\* The delays of pulse t are absorbed but the solver finds no solution
\* (started_solving, inconsistent_problem): tick() throws.
AbsorbUnsolvable ==
    /\ pc = "absorb"
    /\ LET t == MinOf(pulses) IN
       /\ Absorbable(t)
       /\ adaptations' = AbsorbedStore(t)
       /\ lra' = AbsorbedLra(t)
       /\ dont_start' = Erase(dont_start, DelayedStart(t))
       /\ dont_end' = Erase(dont_end, DelayedEnd(t))
    /\ Solutions(sigma, constant, val, lra') = {}
    /\ clear_timelines
    /\ state' = "Failed"
    /\ log' = log \o started_solving(state) \o <<StateEvent("Failed")>>
    /\ pc' = "idle"
    /\ ret' = "raised"
    /\ UNCHANGED <<running, pending_requirements, current_time, units_per_tick,
                   executing, solved, sigma, constant, val, horizon, hist_vars, inflight, theory_vars, created, timer>>

\* the starting atoms are frozen: of the time points only START is looked
\* at (AT, DURATION and END are skipped); emplace keeps the bounds already
\* stored
FreezeStartStore(ad, SA) ==
    [a \in Atoms |->
        IF a \in SA /\ is_interval(a) /\ a \notin constant
        THEN [ad[a] EXCEPT !.start =
                 IF @.has THEN @
                 ELSE [has |-> TRUE, lb |-> val[a].start, ub |-> val[a].start]]
        ELSE ad[a]]

\* lra_theory::set on START
FreezeStartLra(l, SA) ==
    [a \in Atoms |->
        IF a \in SA /\ is_interval(a) /\ a \notin constant
        THEN [l[a] EXCEPT !.start = [lb |-> val[a].start, ub |-> val[a].start]]
        ELSE l[a]]

\* the ending atoms are frozen: AT of an impulse, END of an interval
FreezeEndStore(ad, EA) ==
    [a \in Atoms |->
        IF a \in EA /\ a \notin constant
        THEN [ad[a] EXCEPT ![EndName(a)] =
                 [has |-> TRUE, lb |-> EndValue(a, val), ub |-> EndValue(a, val)]]
        ELSE ad[a]]

FreezeEndLra(l, EA) ==
    [a \in Atoms |->
        IF a \in EA /\ a \notin constant
        THEN [l[a] EXCEPT ![EndName(a)] =
                 [lb |-> EndValue(a, val), ub |-> EndValue(a, val)]]
        ELSE l[a]]

\* mutant of NotifyStart: the end notification is sent before the start one
NotifyStart_EndFirst(lg, t) ==
    lg \o (IF t \in DOMAIN e_atms THEN <<Event("end", t, e_atms[t], "")>> ELSE <<>>)
       \o (IF t \in DOMAIN s_atms THEN <<Event("start", t, s_atms[t], "")>> ELSE <<>>)

\* the start and end notifications of pulse t
NotifyStart(lg, t) ==
    lg \o (IF t \in DOMAIN s_atms THEN <<Event("start", t, s_atms[t], "")>> ELSE <<>>)
       \o (IF t \in DOMAIN e_atms THEN <<Event("end", t, e_atms[t], "")>> ELSE <<>>)

\* mutant of Dispatch: the delays asked for pulse t are not looked at
Dispatch_IgnoreDelays ==
    /\ pc = "absorb"
    /\ LET t == MinOf(pulses) IN
       /\ adaptations' = FreezeEndStore(FreezeStartStore(adaptations, StartingAt(t)),
                                        EndingAt(t))
       /\ lra' = FreezeEndLra(FreezeStartLra(lra, StartingAt(t)), EndingAt(t))
       /\ executing' = (executing \cup StartingAt(t)) \ EndingAt(t)
       /\ log' = NotifyStart(log, t)
       /\ started' = started \cup StartingAt(t)
       /\ ended' = ended \cup EndingAt(t)
       /\ pulses' = pulses \ {t}
    /\ pc' = "loop"
    /\ UNCHANGED <<state, running, pending_requirements, current_time, units_per_tick,
                   dont_start, dont_end, s_atms, e_atms, solved, sigma, constant,
                   val, horizon, ret, inflight, theory_vars, created, timer>>
    /\ UNCHANGED inconsistent

\* No delay was asked for pulse t: its starting atoms are frozen, added to
\* the executing atoms and started; its ending atoms are frozen, removed
\* and ended; the pulse is erased.
Dispatch ==
    /\ pc = "absorb"
    /\ LET t == MinOf(pulses) IN
       /\ DelayedStart(t) \cup DelayedEnd(t) = {}
       /\ adaptations' = FreezeEndStore(FreezeStartStore(adaptations, StartingAt(t)),
                                        EndingAt(t))
       /\ lra' = FreezeEndLra(FreezeStartLra(lra, StartingAt(t)), EndingAt(t))
       /\ executing' = (executing \cup StartingAt(t)) \ EndingAt(t)
       /\ log' = NotifyStart(log, t)
       /\ started' = started \cup StartingAt(t)
       /\ ended' = ended \cup EndingAt(t)
       /\ pulses' = pulses \ {t}
    /\ pc' = "loop"
    /\ UNCHANGED <<state, running, pending_requirements, current_time, units_per_tick,
                   dont_start, dont_end, s_atms, e_atms, solved, sigma, constant,
                   val, horizon, ret, inflight, theory_vars, created, timer>>
    /\ UNCHANGED inconsistent

----------------------------------------------------------------------------

Next ==
    \/ FirstSolve
    \/ start_execution
    \/ pause_execution
    \/ adapt
    \/ \E a \in Atoms : failure(a)
    \/ \E a \in Atoms : failureNoBackjump(a)
    \/ \E a \in Atoms : failureUnsolvable(a)
    \/ TickBegin
    \/ TickBeginSolved
    \/ TickBeginInconsistent
    \/ NotifyStartingEnding
    \/ AbsorbRaise
    \/ AbsorbDelays
    \/ AbsorbUnsolvable
    \/ Dispatch
    \/ FinishTick

Spec == Init /\ [][Next]_vars

----------------------------------------------------------------------------
\* Several threads (MULTIPLE_EXECUTORS): tick, adapt and failure hold the
\* mutex, so they exclude one another as the calls of one thread do;
\* start_execution and pause_execution take no lock, so the two writes of
\* each (running, then state with its notification) interleave with one
\* another and with the steps of a tick. Of these interleavings the ones
\* explored are those in which the second write of a call lands between two
\* calls of the thread that holds the mutex.

\* start_execution, `running = true`
start_execution_running ==
    /\ solved
    /\ "start" \notin inflight
    /\ running' = TRUE
    /\ inflight' = inflight \cup {"start"}
    /\ UNCHANGED <<state, pending_requirements, current_time, units_per_tick,
                   executing, adaptations, dont_start, dont_end, timeline_vars,
                   solver_vars, pc, ret, log, hist_vars, inconsistent, theory_vars, created, timer>>

\* start_execution, `state = Executing` and the notification
start_execution_state ==
    /\ "start" \in inflight
    /\ pc = "idle"
    /\ state' = "Executing"
    /\ log' = <<StateEvent("Executing")>>
    /\ inflight' = inflight \ {"start"}
    /\ UNCHANGED <<running, pending_requirements, current_time, units_per_tick,
                   executing, adaptations, dont_start, dont_end, timeline_vars,
                   solver_vars, pc, ret, hist_vars, inconsistent, theory_vars, created, timer>>

\* pause_execution, `running = false`
pause_execution_running ==
    /\ solved
    /\ "pause" \notin inflight
    /\ running' = FALSE
    /\ inflight' = inflight \cup {"pause"}
    /\ UNCHANGED <<state, pending_requirements, current_time, units_per_tick,
                   executing, adaptations, dont_start, dont_end, timeline_vars,
                   solver_vars, pc, ret, log, hist_vars, inconsistent, theory_vars, created, timer>>

\* pause_execution, `state = Idle` and the notification
pause_execution_state ==
    /\ "pause" \in inflight
    /\ pc = "idle"
    /\ state' = "Idle"
    /\ log' = <<StateEvent("Idle")>>
    /\ inflight' = inflight \ {"pause"}
    /\ UNCHANGED <<running, pending_requirements, current_time, units_per_tick,
                   executing, adaptations, dont_start, dont_end, timeline_vars,
                   solver_vars, pc, ret, hist_vars, inconsistent, theory_vars, created, timer>>

NextMT ==
    \/ FirstSolve
    \/ start_execution_running
    \/ start_execution_state
    \/ pause_execution_running
    \/ pause_execution_state
    \/ TickBegin
    \/ NotifyStartingEnding
    \/ AbsorbRaise
    \/ AbsorbDelays
    \/ AbsorbUnsolvable
    \/ Dispatch
    \/ FinishTick

SpecMT == Init /\ [][NextMT]_vars

----------------------------------------------------------------------------
\* A listener calls the executor from inside a notification of tick()
\* (MULTIPLE_EXECUTORS). The client itself only starts, pauses and ticks.

\* mutant of mtx_locked: tick() takes no lock
mtx_locked_Never == FALSE

\* std::lock_guard in tick(): the mutex is owned from the entry of tick() to
\* its return
mtx_locked == pc # "idle"

\* the calls that take the mutex
NestedOps == {"tick", "adapt", "failure"}

\* A listener answers the starting/ending notification by calling op on the
\* same executor. lock() on a std::mutex the calling thread owns is undefined:
\* it never returns, or it fails with a system_error that leaves tick(). A
\* free mutex is acquired and the call enters its body.
NestedCall(op) ==
    /\ pc = "loop"
    /\ HasDue
    /\ log' = NotifyStarting(log, MinOf(pulses))
    /\ IF mtx_locked
       THEN \/ pc' = "blocked" /\ ret' = ret /\ inflight' = {op}
            \/ pc' = "idle" /\ ret' = "raised" /\ inflight' = {}
       ELSE pc' = "nested" /\ ret' = ret /\ inflight' = {op}
    /\ UNCHANGED <<state, running, pending_requirements, current_time, units_per_tick,
                   executing, adaptations, dont_start, dont_end, timeline_vars,
                   solver_vars, hist_vars, inconsistent, theory_vars, created, timer>>

NextNested ==
    \/ FirstSolve
    \/ start_execution
    \/ pause_execution
    \/ TickBegin
    \/ NotifyStartingEnding
    \/ \E op \in NestedOps : NestedCall(op)
    \/ AbsorbRaise
    \/ AbsorbDelays
    \/ AbsorbUnsolvable
    \/ Dispatch
    \/ FinishTick

SpecNested == Init /\ [][NextNested]_vars

----------------------------------------------------------------------------
\* The execution theory: executor::propagate and executor::propagate_bounds,
\* called by the SAT core when a literal of a bound variable becomes true.
\* The theory is exercised on its own: from any assignment of the SAT
\* variables and any stored bounds, one literal is propagated.

\* semitone::lit: a variable and a sign
lit(v) == [var |-> v, sign |-> TRUE]
Not(l) == [l EXCEPT !.sign = ~@]
xi == lit(xi_var)
sigma_xi(a) == lit(sigma_xi_var(a))
\* bool_item::get_lit of the bool expression of atom a
get_lit(a) == lit(bool_var(a))

\* sat_core::value of a literal under the assignment s
value(s, l) ==
    IF s[l.var] = "Undefined" THEN "Undefined"
    ELSE IF (s[l.var] = "True") = l.sign THEN "True" ELSE "False"

\* all_atoms: the atom of a sigma_xi variable
all_atoms(v) == CHOOSE a \in Atoms : sigma_xi_var(a) = v

\* the keys of adaptations.at(a).bounds: the time expressions with stored
\* arithmetic bounds and, if a bool value was frozen, the bool expression
Items(a) ==
    {n \in Names : adaptations[a][n].has}
        \cup (IF bool_bounds[a] # "none" THEN {"flag"} ELSE {})

\* theory::record of the clause {l, other} when other is false: the SAT core
\* keeps the clause and enqueues l
record(T, l, other) ==
    [T EXCEPT !.recorded = @ \cup {{l, other}},
              !.sat = [@ EXCEPT ![l.var] = IF l.sign THEN "True" ELSE "False"]]

\* mutant of propagate_bool: the recorded and the conflict clause carry the
\* literal with the sign of the stored value
propagate_bool_Signed(T, a, reason) ==
    LET var == get_lit(a)
        cur == value(T.sat, var)
        want == IF bool_bounds[a] = "True" THEN var ELSE Not(var)
    IN  IF cur = "Undefined" THEN record(T, want, Not(reason))
        ELSE IF cur # bool_bounds[a]
        THEN [T EXCEPT !.cnfl = @ \cup {want, Not(reason)}, !.ret = FALSE]
        ELSE T

\* propagate_bounds, the bool_bounds branch
propagate_bool(T, a, reason) ==
    LET var == get_lit(a)
        cur == value(T.sat, var)
    IN  IF cur = "Undefined" THEN record(T, var, Not(reason))
        ELSE IF cur # bool_bounds[a]
        THEN [T EXCEPT !.cnfl = @ \cup {var, Not(reason)}, !.ret = FALSE]
        ELSE T

\* swap_conflict(slv.get_lra_theory()): the explanation of the linear theory,
\* which holds the negation of the reason of the refused bound
swap_conflict(T, reason) == [T EXCEPT !.cnfl = {Not(reason)}, !.ret = FALSE]

\* propagate_bounds, the arith_bounds branch: set_lb then set_ub, each refused
\* when it crosses the opposite bound of the variable
propagate_arith(T, a, n, reason) ==
    LET b == adaptations[a][n]
        cur == T.lra[a][n]
        lb == Max(cur.lb, b.lb)
    IN  IF a \in constant THEN T
        ELSE IF b.lb > cur.ub THEN swap_conflict(T, reason)
        ELSE IF b.ub < lb
        THEN swap_conflict([T EXCEPT !.lra[a][n].lb = lb], reason)
        ELSE [T EXCEPT !.lra[a][n] = [lb |-> lb, ub |-> Min(cur.ub, b.ub)]]

\* executor::propagate_bounds
propagate_bounds(T, c) ==
    LET U == [T EXCEPT !.done = @ \cup {c}]
    IN  IF c.itm = "flag" THEN propagate_bool(U, c.atm, c.reason)
        ELSE propagate_arith(U, c.atm, c.itm, c.reason)

\* the orders in which a loop may visit an unordered container
Orders(S) == {f \in [1 .. Cardinality(S) -> S] : \A i, j \in DOMAIN f : f[i] = f[j] => i = j}
ItemOrders == {f \in [Atoms -> UNION {Orders(Items(a)) : a \in Atoms}] :
                 \A a \in Atoms : f[a] \in Orders(Items(a))}

\* the propagate_bounds calls of the loops of propagate, in visiting order
RECURSIVE CallsOf(_, _, _)
CallsOf(ao, io, reason) ==
    IF ao = <<>> THEN <<>>
    ELSE [i \in DOMAIN io[Head(ao)] |->
            [atm |-> Head(ao), itm |-> io[Head(ao)][i], reason |-> reason[Head(ao)]]]
         \o CallsOf(Tail(ao), io, reason)

\* the loops of propagate: they return at the first conflict
RECURSIVE Run(_, _)
Run(T, cs) ==
    IF cs = <<>> \/ ~T.ret THEN T
    ELSE Run(propagate_bounds(T, Head(cs)), Tail(cs))

\* mutant of Visited: on xi every adaptation is visited, whatever its sigma_xi
Visited_Any(p) ==
    IF p = xi THEN Atoms
    ELSE IF sat[p.var] = "True" THEN {all_atoms(p.var)}
    ELSE {}

\* the atoms propagate(p) visits and the reason it gives for each
Visited(p) ==
    IF p = xi THEN {a \in Atoms : value(sat, sigma_xi(a)) = "True"}
    ELSE IF sat[p.var] = "True" THEN {all_atoms(p.var)}
    ELSE {}
ReasonOf(p) == [a \in Atoms |-> IF p = xi THEN sigma_xi(a) ELSE p]

\* the literals of the variables bound to the theory
BoundLits ==
    {l \in [var : {xi_var} \cup {sigma_xi_var(a) : a \in Atoms}, sign : BOOLEAN] : TRUE}

\* executor::propagate, called by the SAT core when p became true
propagate(p) ==
    /\ prop_ret = "none"
    /\ value(sat, p) = "True"
    /\ \E ao \in Orders(Visited(p)), io \in ItemOrders :
          LET T == Run([sat |-> sat, lra |-> lra, recorded |-> {}, cnfl |-> {},
                        done |-> {}, ret |-> TRUE],
                       CallsOf(ao, io, ReasonOf(p)))
          IN  /\ sat' = T.sat
              /\ lra' = T.lra
              /\ recorded' = T.recorded
              /\ cnfl' = T.cnfl
              /\ reasserted' = T.done
              /\ prop_ret' = IF T.ret THEN "true" ELSE "false"
    /\ UNCHANGED <<exec_vars, solved, sigma, constant, val, horizon, pc, ret, log,
                   hist_vars, inconsistent, inflight, bool_bounds, created, timer>>

\* the bounds an adaptation holds for the first time expression of its atom:
\* those of flaw_created, or those of a freeze
StoredBounds == {[has |-> TRUE, lb |-> 0, ub |-> PosInf], [has |-> TRUE, lb |-> 1, ub |-> 1]}

\* the states the SAT core may call the theory in: a solved problem with
\* both atoms active, any assignment of the SAT variables, any stored bounds
\* and any bounds left in the linear theory after a backtrack
InitTheory ==
    /\ state = "Executing"
    /\ running = TRUE
    /\ pending_requirements = FALSE
    /\ current_time = 1
    /\ units_per_tick = 1
    /\ executing = {}
    /\ \E sa, sb \in StoredBounds :
          adaptations = [a \in Atoms |-> [n \in Names |->
              IF n # StartName(a) THEN NoBounds ELSE IF a = "a" THEN sa ELSE sb]]
    /\ dont_start = <<>>
    /\ dont_end = <<>>
    /\ s_atms = <<>>
    /\ e_atms = <<>>
    /\ pulses = {}
    /\ solved = TRUE
    /\ sigma = Atoms
    /\ constant \in {{}, {"b"}}
    /\ val = [a \in Atoms |-> NoValue]
    /\ horizon = 0
    /\ \E ua, ub \in {0, PosInf} :
          lra = [a \in Atoms |-> [n \in Names |->
              [lb |-> 0, ub |-> IF n # StartName(a) THEN PosInf
                                 ELSE IF a = "a" THEN ua ELSE ub]]]
    /\ pc = "idle"
    /\ ret = "none"
    /\ log = <<>>
    /\ started = {}
    /\ ended = {}
    /\ inconsistent = FALSE
    /\ inflight = {}
    /\ sat \in [SatVars -> LBool]
    /\ bool_bounds \in [Atoms -> {"none", "True", "False"}]
    /\ recorded = {}
    /\ cnfl = {}
    /\ reasserted = {}
    /\ prop_ret = "none"
    /\ created = [a \in Atoms |-> [time |-> 0, clause |-> new_flaw(a).clause]]
    /\ timer = NoTimer

NextTheory == \E p \in BoundLits : propagate(p)

SpecTheory == InitTheory /\ [][NextTheory]_vars

----------------------------------------------------------------------------
\* Atoms that enter the problem during the execution: the first problem
\* holds some of the atoms, adapt() reads a script with another one, whose
\* flaw is created at the current time.

\* the atoms flaw_created ran for
Created == {a \in Atoms : created[a] # NoFlaw}

\* the first problem holds the atoms C only, all of them active
FirstSolveSome ==
    /\ pc = "idle"
    /\ ~solved
    /\ \E C \in (SUBSET Atoms) \ {Atoms} :
          LET ad == [a \in Atoms |-> IF a \in C THEN flaw_created(a)
                                     ELSE [n \in Names |-> NoBounds]]
          IN  /\ \E v \in Solutions(C, {}, val, Reassert(ad)) :
                    /\ val' = v
                    /\ horizon' = HorizonOf(v, C, 0)
                    /\ build_timelines(v, C)
              /\ sigma' = C
              /\ adaptations' = ad
              /\ lra' = Reassert(ad)
              /\ created' = [a \in Atoms |-> IF a \in C THEN new_flaw(a) ELSE NoFlaw]
              /\ UNCHANGED timer
    /\ constant' = {}
    /\ solved' = TRUE
    /\ state' = SolutionState
    /\ log' = <<StateEvent(SolutionState)>>
    /\ UNCHANGED <<running, pending_requirements, current_time, units_per_tick,
                   executing, dont_start, dont_end, pc, ret, hist_vars, inflight, theory_vars>>

\* the values a script may give to the time expressions of a constant atom
ConstValues(a) ==
    IF is_impulse(a) THEN {[NoValue EXCEPT !.at = 0], [NoValue EXCEPT !.at = MaxVal]}
    ELSE {[at |-> 0, start |-> 0, end |-> MaxVal], [at |-> 0, start |-> MaxVal, end |-> MaxVal]}

\* executor::adapt with a script that holds a new atom a, of constant or of
\* variable time expressions: flaw_created runs for it at the current time
adapt_new ==
    /\ Callable
    /\ solved
    /\ \E a \in Atoms \ Created :
          /\ adaptations' = [adaptations EXCEPT ![a] = flaw_created(a)]
          /\ created' = [created EXCEPT ![a] = new_flaw(a)]
          /\ UNCHANGED timer
          /\ \/ constant' = constant /\ val' = val
             \/ constant' = constant \cup {a}
                /\ \E c \in ConstValues(a) : val' = [val EXCEPT ![a] = c]
    /\ lra' = [a \in Atoms |-> FreeLra]
    /\ pending_requirements' = TRUE
    /\ log' = <<>>
    /\ ret' = "none"
    /\ UNCHANGED <<state, running, current_time, units_per_tick, executing,
                   dont_start, dont_end, timeline_vars, solved, sigma, horizon, pc,
                   hist_vars, inconsistent, inflight, theory_vars>>

\* tick() with pending requirements: the problem is solved again, the new
\* atoms are active in the solution
TickBeginActivate ==
    /\ Callable
    /\ solved
    /\ current_time <= MaxVal
    /\ pending_requirements
    /\ ~inconsistent
    /\ pending_requirements' = FALSE
    /\ lra' = Reassert(adaptations)
    /\ sigma' = Created
    /\ \E v \in Solutions(sigma', constant, val, lra') :
          /\ val' = v
          /\ horizon' = HorizonOf(v, sigma', horizon)
          /\ build_timelines(v, sigma')
    /\ state' = SolutionState
    /\ log' = started_solving(state) \o <<StateEvent(SolutionState)>>
    /\ TickEnter
    /\ UNCHANGED <<running, current_time, units_per_tick, executing, adaptations,
                   dont_start, dont_end, solved, constant, hist_vars, inflight,
                   theory_vars, created, timer>>

NextCreate ==
    \/ FirstSolveSome
    \/ start_execution
    \/ adapt_new
    \/ TickBegin
    \/ TickBeginActivate
    \/ NotifyStartingEnding
    \/ AbsorbRaise
    \/ AbsorbDelays
    \/ AbsorbUnsolvable
    \/ Dispatch
    \/ FinishTick

SpecCreate == Init /\ [][NextCreate]_vars

----------------------------------------------------------------------------
\* executor::solution_found, with the execution variable xi: the handler is
\* exercised on its own, from any solution the solver may report, any value
\* of xi and any timeline left by an earlier solution.

\* mutant of XiFalse: the value of xi is not looked at
XiFalse_Never(s) == FALSE

\* slv.get_sat_core().value(xi) == utils::False
XiFalse(s) == s[xi_var] = "False"

\* the handler throws execution_exception after the notifications lg
solution_raise(lg) ==
    /\ ret' = "raised"
    /\ log' = lg
    /\ state' = IF lg # <<>> THEN "Adapting" ELSE state
    /\ UNCHANGED <<timeline_vars, inconsistent>>

\* the handler returns after the notifications lg of a nested solve
solution_return(lg) ==
    /\ build_timelines(val, sigma)
    /\ state' = SolutionState
    /\ log' = lg \o <<StateEvent(SolutionState)>>
    /\ ret' = ret

\* what a nested slv.solve() may do: report a solution, report an
\* inconsistent problem, or throw from the nested solution_found
NestedSolve == {"solution", "inconsistent", "raise"}

\* executor::solution_found. take_decision(xi) leaves xi true, false (the
\* decision was refuted) or undefined (the solver backjumped over it); in the
\* last case the problem is solved again from inside the handler.
solution_found ==
    /\ ret = "none"
    /\ log = <<>>
    /\ IF XiFalse(sat)
       THEN sat' = sat /\ solution_raise(<<>>)
       ELSE \E decided \in (IF sat[xi_var] = "Undefined" THEN LBool ELSE {"True"}) :
               /\ sat' = [sat EXCEPT ![xi_var] = decided]
               /\ IF XiFalse(sat') THEN solution_raise(<<>>)
                  ELSE IF decided = "True" THEN solution_return(<<>>)
                  ELSE \E nested \in NestedSolve :
                          IF nested = "raise"
                          THEN solution_raise(started_solving(state))
                          ELSE solution_return(started_solving(state) \o
                                  <<StateEvent(IF nested = "solution"
                                               THEN SolutionState ELSE "Failed")>>)
    /\ UNCHANGED <<running, pending_requirements, current_time, units_per_tick,
                   executing, adaptations, dont_start, dont_end, solver_vars, pc,
                   hist_vars, inflight, bool_bounds, recorded, cnfl, reasserted,
                   prop_ret, created, timer>>

\* the states the solver may report a solution in: during the first solve or
\* a later one, paused or running, with the timeline of an earlier solution
InitSolution ==
    /\ state \in {"Reasoning", "Adapting"}
    /\ running \in BOOLEAN
    /\ pending_requirements = FALSE
    /\ current_time \in {0, 1}
    /\ units_per_tick = 1
    /\ executing = {}
    /\ adaptations = [a \in Atoms |-> [n \in Names |->
          IF n = StartName(a) THEN [has |-> TRUE, lb |-> 0, ub |-> PosInf] ELSE NoBounds]]
    /\ dont_start = <<>>
    /\ dont_end = <<>>
    /\ \E old \in {{}, {"a"}} :
          /\ s_atms = [t \in {MaxVal : x \in old} |-> old]
          /\ e_atms = s_atms
          /\ pulses = DOMAIN s_atms
    /\ solved = TRUE
    /\ sigma \in SUBSET Atoms
    /\ constant = {}
    /\ val \in Solutions(sigma, {}, [a \in Atoms |-> NoValue], [a \in Atoms |-> FreeLra])
    /\ horizon = HorizonOf(val, sigma, 0)
    /\ lra = [a \in Atoms |-> FreeLra]
    /\ pc = "idle"
    /\ ret = "none"
    /\ log = <<>>
    /\ started = {}
    /\ ended = {}
    /\ inconsistent = FALSE
    /\ inflight = {}
    /\ sat \in {[v \in SatVars |-> IF v = xi_var THEN x ELSE "Undefined"] : x \in LBool}
    /\ bool_bounds = [a \in Atoms |-> "none"]
    /\ recorded = {}
    /\ cnfl = {}
    /\ reasserted = {}
    /\ prop_ret = "none"
    /\ created = [a \in Atoms |-> [time |-> 0, clause |-> new_flaw(a).clause]]
    /\ timer = NoTimer

NextSolution == solution_found

SpecSolution == InitSolution /\ [][NextSolution]_vars

----------------------------------------------------------------------------
\* tick() runs to its end once entered: the steps of a tick are taken as long
\* as one is possible (the notifications return, the solver answers)
TickSteps ==
    \/ NotifyStartingEnding
    \/ AbsorbRaise
    \/ AbsorbDelays
    \/ AbsorbUnsolvable
    \/ Dispatch
    \/ FinishTick

----------------------------------------------------------------------------
\* what the properties speak of

\* the last tick() call ran the loop and returned
TickDone == pc = "idle" /\ ret = "done"

\* a tick() call is inside its loop
InTick == pc \in {"loop", "absorb"}

\* the value current_time had when the last tick() call that ran was entered
EntryTime == IF TickDone THEN current_time - units_per_tick ELSE current_time

\* the positions of the log holding a notification of one of the kinds ks
Positions(ks) == {i \in DOMAIN log : log[i].k \in ks}

\* the log tells the listeners that the atoms as of pulse t were started / ended
Started(t, as) == \E i \in Positions({"start"}) : log[i].t = t /\ log[i].atoms = as
Ended(t, as) == \E i \in Positions({"end"}) : log[i].t = t /\ log[i].atoms = as

----------------------------------------------------------------------------
----------------------------------------------------------------------------
\* C2: every pulse t with current_time <= t < current_time + units_per_tick
\* (current_time at entry) is dispatched by that same tick: when the tick
\* returns, no pulse of this window is left in pulses.
C2_WindowDispatched ==
    TickDone => \A p \in pulses : ~(EntryTime <= p /\ p < EntryTime + units_per_tick)

----------------------------------------------------------------------------
\* the scenario of one impulse atom at AT = k >= 1 with units_per_tick = 1;
\* the n-th tick that runs is the one entered with current_time = n - 1
S1 ==
    /\ units_per_tick = 1
    /\ ~inconsistent
    /\ sigma = {"a"}
    /\ val["a"].at >= 1

\* no delay of the impulse has been absorbed and the impulse is not frozen
NotDelayed == adaptations["a"].at = [has |-> TRUE, lb |-> 0, ub |-> PosInf]

\* the dispatch notifications of the log
DispatchEvents == Positions({"starting", "ending", "start", "end"})

\* C3 as stated: in scenario S1 the k-th tick (the one after which
\* current_time = k) dispatches the impulse and leaves pulses empty.
C3_Original ==
    (S1 /\ TickDone /\ NotDelayed /\ current_time = val["a"].at) =>
        /\ Started(val["a"].at, {"a"})
        /\ pulses = {}

\* C3: in scenario S1 the ticks entered with current_time < k (ticks 1..k)
\* emit no starting/ending/start/end notification; the tick entered with
\* current_time = k (tick k+1) starts and ends the impulse, and when it
\* returns current_time = k + 1 and pulses is empty.
C3_ImpulseAtEntryTime ==
    S1 =>
        /\ ((InTick \/ TickDone) /\ NotDelayed /\ EntryTime < val["a"].at) =>
              DispatchEvents = {}
        /\ (TickDone /\ EntryTime = val["a"].at) =>
              /\ Started(val["a"].at, {"a"})
              /\ Ended(val["a"].at, {"a"})
              /\ current_time = val["a"].at + 1
              /\ pulses = {}

\* C3 witness: the third tick has dispatched the impulse at AT = 2
C3_Witness ==
    /\ S1
    /\ TickDone
    /\ val["a"].at = 2
    /\ EntryTime = 2
    /\ Started(2, {"a"})

----------------------------------------------------------------------------
\* C4: the order of the notifications of one tick: the start (end)
\* notification of a pulse comes after the starting (ending) notification of
\* the same pulse and atoms, with nothing but the other notification of
\* that pulse in between; a new solution found inside the loop is announced
\* right after a starting/ending notification, so before any start/end of
\* that pulse; the tick notification is the last one.
C4_NotificationOrder ==
    /\ \A i \in Positions({"tick"}) : i = Len(log)
    /\ TickDone => (log # <<>> /\ log[Len(log)].k = "tick")
    /\ \A i \in Positions({"start"}) :
          \E j \in 1 .. (i - 1) :
             /\ log[j] = Event("starting", log[i].t, log[i].atoms, "")
             /\ \A m \in (j + 1) .. (i - 1) : log[m].k = "ending" /\ log[m].t = log[i].t
    /\ \A i \in Positions({"end"}) :
          \E j \in 1 .. (i - 1) :
             /\ log[j] = Event("ending", log[i].t, log[i].atoms, "")
             /\ \A m \in (j + 1) .. (i - 1) : log[m].k = "start" /\ log[m].t = log[i].t
    /\ \A i \in Positions({"state"}) :
          (log[i].s = "Adapting" /\ i > 1) => log[i - 1].k \in {"starting", "ending"}

\* C4 witness: a tick announced a pulse, absorbed a delay, found a new
\* solution, started a pulse and ended with the tick notification
C4_Witness ==
    /\ TickDone
    /\ \E i, j, k \in DOMAIN log :
          /\ i < j /\ j < k
          /\ log[i].k = "starting"
          /\ log[j] = StateEvent("Adapting")
          /\ log[k].k = "start"
    /\ log[Len(log)].k = "tick"

----------------------------------------------------------------------------
\* the start notifications of the impulse
ImpulseStarts == {i \in Positions({"start"}) : "a" \in log[i].atoms}

\* C5 as stated: for the pulse of an impulse the order is starting, start,
\* ending, end: the start notification comes before the ending one.
C5_Original ==
    \A i \in ImpulseStarts :
       \A j \in Positions({"ending"}) :
          (log[j].t = log[i].t /\ "a" \in log[j].atoms) => i < j

\* C5: for the pulse of an impulse the order is starting, ending, start,
\* end, one right after the other.
C5_ImpulseOrder ==
    \A i \in ImpulseStarts :
       /\ i >= 3
       /\ i + 1 <= Len(log)
       /\ log[i - 2].k = "starting" /\ log[i - 2].t = log[i].t /\ "a" \in log[i - 2].atoms
       /\ log[i - 1].k = "ending" /\ log[i - 1].t = log[i].t /\ "a" \in log[i - 1].atoms
       /\ log[i + 1].k = "end" /\ log[i + 1].t = log[i].t /\ "a" \in log[i + 1].atoms

\* C5 witness: the impulse was started together with the interval
C5_Witness ==
    /\ TickDone
    /\ \E i \in ImpulseStarts : log[i].atoms = {"a", "b"}

----------------------------------------------------------------------------
\* the atoms of the pulse at hand whose start or end a listener has delayed
DelayedNow == DelayedStart(MinOf(pulses)) \cup DelayedEnd(MinOf(pulses))

\* the start and end notifications of the log after the step
StartEndPositionsNext == {i \in DOMAIN log' : log'[i].k \in {"start", "end"}}

\* C6: when the start (end) of an atom of pulse t has been delayed, the
\* iteration of the loop fires no start/end notification, changes no
\* executing atom and freezes no value (no upper bound of the linear theory
\* changes); if tick() goes on, a new solution has been announced, the
\* timeline is the one built from the new solution, the loop is at its
\* head again, and the delayed atom starts (ends) at a pulse later than t.
C6_DelayVeto ==
    [][(pc = "absorb" /\ DelayedNow # {}) =>
         LET t == MinOf(pulses) IN
         /\ StartEndPositionsNext = Positions({"start", "end"})
         /\ executing' = executing
         /\ \A a \in Atoms : \A n \in Names : lra'[a][n].ub = lra[a][n].ub
         /\ pc' \in {"loop", "idle"}
         /\ pc' = "idle" => ret' = "raised"
         /\ pc' = "loop" =>
               /\ Len(log') > Len(log)
               /\ log'[Len(log')] \in {StateEvent("Executing"), StateEvent("Idle")}
               /\ s_atms' = BuildStart(val', sigma, current_time)
               /\ e_atms' = BuildEnd(val', sigma, current_time)
               /\ pulses' = DOMAIN s_atms' \cup DOMAIN e_atms'
               /\ \A a \in DelayedStart(t) :
                     /\ StartValue(a, val') > t
                     /\ \A u \in DOMAIN s_atms' : a \in s_atms'[u] => u > t
               /\ \A a \in DelayedEnd(t) :
                     /\ EndValue(a, val') > t
                     /\ \A u \in DOMAIN e_atms' : a \in e_atms'[u] => u > t
    ]_vars

\* C6 witness: the loop is at its head after a new solution was found for
\* a delay; an atom announced as starting at a pulse now starts at a later
\* one, and nothing was started or ended
C6_Witness ==
    /\ pc = "loop"
    /\ Len(log) >= 3
    /\ log[Len(log) - 1] = StateEvent("Adapting")
    /\ Positions({"start", "end"}) = {}
    /\ \E i \in Positions({"starting"}) : \E a \in log[i].atoms :
          \E u \in DOMAIN s_atms : u > log[i].t /\ a \in s_atms[u]

----------------------------------------------------------------------------
\* the delays absorbed by one iteration for the time point n of atom a
DelaysOn(a, n) ==
    {dont_start[x] : x \in {y \in DelayedStart(MinOf(pulses)) : y = a /\ StartName(y) = n}}
    \cup {dont_end[x] : x \in {y \in DelayedEnd(MinOf(pulses)) : y = a /\ EndName(y) = n}}

\* the lower bounds these delays ask for
BoundsOn(a, n) ==
    {val[a][n] + Max(units_per_tick, d) : d \in DelaysOn(a, n)}

\* C7: when the delays of a pulse are absorbed, the lower bound stored for
\* a delayed time point is its value + max(units_per_tick, d) for a delay d
\* asked for it, with the upper bound left alone, and the linear theory
\* holds the largest of these bounds; so a lone delay d stores and asserts
\* exactly value + max(units_per_tick, d), which is value + units_per_tick
\* when d < units_per_tick.
C7_AbsorbedBound ==
    [][(pc = "absorb" /\ Absorbable(MinOf(pulses))) =>
         \A a \in Atoms : \A n \in Names :
            DelaysOn(a, n) # {} =>
               /\ adaptations'[a][n].has
               /\ adaptations'[a][n].lb \in BoundsOn(a, n)
               /\ lra'[a][n].lb = MaxOf(BoundsOn(a, n))
               /\ \A d \in DelaysOn(a, n) :
                     d < units_per_tick =>
                        val[a][n] + units_per_tick \in BoundsOn(a, n)
    ]_vars

\* C7 witness: with units_per_tick = 2 a delay was absorbed at the current
\* time and the bound stored is the current time + 2
C7_Witness ==
    /\ pc = "loop"
    /\ units_per_tick = 2
    /\ Len(log) >= 3
    /\ log[Len(log) - 1] = StateEvent("Adapting")
    /\ \E a \in sigma : \E n \in Names :
          adaptations[a][n] = [has |-> TRUE, lb |-> current_time + 2, ub |-> PosInf]

----------------------------------------------------------------------------
\* C8: a tick() called while the executor is not running and no adaptation
\* is pending returns early: it emits no notification and leaves pulses,
\* the timeline, the executing atoms, the state and current_time alone;
\* a tick() called while it is running enters the loop, and when the loop
\* is over no due pulse is left and current_time advances by
\* units_per_tick.
C8_PausedTick ==
    [][/\ (TickBegin /\ ~running) =>
            /\ pc' = "idle"
            /\ ret' = "early"
            /\ log' = <<>>
            /\ UNCHANGED <<pulses, s_atms, e_atms, executing, current_time, state>>
       /\ (TickBegin /\ running) => (pc' = "loop" /\ ret' = "active")
       /\ (pc = "loop" /\ pc' = "idle") =>
            /\ ~HasDue
            /\ current_time' = current_time + units_per_tick
    ]_vars

\* C8 witness: the executor ran, was paused, and a tick returned early
\* with a due pulse left in pulses
C8_Witness ==
    /\ pc = "idle"
    /\ ret = "early"
    /\ ~running
    /\ current_time > 0
    /\ HasDue

----------------------------------------------------------------------------
\* the executor has run and is paused
Paused == state = "Idle" /\ current_time > 0

\* C9 as stated: a tick() of a paused executor advances current_time by
\* units_per_tick, dispatches nothing and leaves the executing atoms alone.
C9_Original ==
    [][(TickBegin /\ Paused) =>
          /\ current_time' = current_time + units_per_tick
          /\ executing' = executing
          /\ {i \in DOMAIN log' : log'[i].k \in {"starting", "ending", "start", "end"}} = {}
    ]_vars

\* C9: a tick() of a paused executor returns at once: current_time and the
\* executing atoms are unchanged and nothing is dispatched.
C9_PausedTickKeepsTime ==
    [][(TickBegin /\ Paused) =>
          /\ pc' = "idle"
          /\ current_time' = current_time
          /\ executing' = executing
          /\ {i \in DOMAIN log' : log'[i].k \in {"starting", "ending", "start", "end"}} = {}
    ]_vars

\* C9 witness: a tick of a paused executor returned while an atom was
\* executing
C9_Witness ==
    /\ pc = "idle"
    /\ ret = "early"
    /\ Paused
    /\ executing # {}

----------------------------------------------------------------------------
\* the notifications the step adds to the log
Added == {i \in DOMAIN log' : i > Len(log)}

\* C10: when the loop of a running tick() is over, if horizon <=
\* current_time (before the increment) and no end delay is pending, the
\* state becomes Finished and the listeners are told; otherwise the state
\* is left as it is and no Finished notification is sent.
C10_HorizonFinish ==
    [][(pc = "loop" /\ pc' = "idle" /\ ret' = "done") =>
          IF horizon <= current_time /\ DOMAIN dont_end = {}
          THEN /\ state' = "Finished"
               /\ \E i \in Added : log'[i] = StateEvent("Finished")
          ELSE /\ state' = state
               /\ \A i \in Added : log'[i] # StateEvent("Finished")
    ]_vars

\* C10 witness: a tick entered at the time of the horizon finished the
\* execution
C10_Witness ==
    /\ TickDone
    /\ state = "Finished"
    /\ horizon = EntryTime
    /\ horizon > 0
    /\ Len(log) >= 2
    /\ log[Len(log) - 1] = StateEvent("Finished")

----------------------------------------------------------------------------
\* the notifications of the log that tell that the execution has finished
FinishedEvents == {i \in DOMAIN log : log[i] = StateEvent("Finished")}

\* scenario S4: units_per_tick = 1, a running tick() has returned, no atom
\* was pending (nothing was dispatched, no pulse is left, no end delay is
\* pending) and the problem was not solved again by this tick
S4 ==
    /\ TickDone
    /\ units_per_tick = 1
    /\ pulses = {}
    /\ DispatchEvents = {}
    /\ DOMAIN dont_end = {}
    /\ Positions({"state"}) \subseteq FinishedEvents

\* C11 as stated: in scenario S4 the tick entered with current_time =
\* horizon - 1 makes the state Finished and notifies it.
C11_Original ==
    (S4 /\ horizon = EntryTime + 1) =>
        /\ state = "Finished"
        /\ FinishedEvents # {}

\* C11: in scenario S4 the tick entered with current_time = horizon emits
\* no start/end notification, makes the state Finished and notifies it;
\* the tick entered with current_time = horizon - 1 does neither.
C11_FinishedAtHorizon ==
    /\ (S4 /\ horizon = EntryTime) =>
          /\ state = "Finished"
          /\ FinishedEvents # {}
          /\ Positions({"start", "end"}) = {}
    /\ (S4 /\ horizon = EntryTime + 1) =>
          /\ state # "Finished"
          /\ FinishedEvents = {}

\* C11 witness: with horizon = 2 and no atom pending, the tick entered at 2
\* emitted the Finished notification and the tick notification only
C11_Witness ==
    /\ S4
    /\ horizon = 2
    /\ EntryTime = 2
    /\ state = "Finished"
    /\ log = <<StateEvent("Finished"), Event("tick", 3, {}, "")>>

----------------------------------------------------------------------------
\* C12: a running tick() entered with the state Finished emits nothing but
\* the tick notification.
C12_OnlyTickAfterFinished ==
    [][(pc = "loop" /\ pc' = "idle" /\ ret' = "done" /\ state = "Finished") =>
          \A i \in DOMAIN log' : log'[i].k = "tick"
    ]_vars

----------------------------------------------------------------------------
\* the states notified by the last call
NotifiedStates == {log[i].s : i \in Positions({"state"})}

\* C13: the state Executing implies running; while not running the state
\* is neither Executing nor Adapting, and no such state is notified (the
\* running flag does not change during the call the log is of).
C13_StateRunning ==
    /\ state = "Executing" => running
    /\ ~running =>
          /\ state \notin {"Executing", "Adapting"}
          /\ NotifiedStates \cap {"Executing", "Adapting"} = {}

----------------------------------------------------------------------------
\* C14: when a call has thrown the execution failure, the state is Failed.
C14_RaisedIsFailed ==
    (pc = "idle" /\ ret = "raised") => state = "Failed"

----------------------------------------------------------------------------
\* a step of a tick() call
TickStep == pc # "idle" \/ TickBegin \/ TickBeginSolved \/ TickBeginInconsistent

\* C15: once the state is Failed, no step of tick(), start_execution() or
\* pause_execution() changes it.
C15_FailedIsTerminal ==
    [][(state = "Failed" /\ (TickStep \/ start_execution \/ pause_execution)) =>
          state' = "Failed"
    ]_vars

----------------------------------------------------------------------------
\* a delay was asked for an atom of the pulse at hand whose expression is
\* a constant
ConstantDelayed == \E a \in DelayedNow : a \in constant

\* C16: when tick() throws because a delay was asked for a constant, the
\* iteration has changed no stored bound and no bound of the linear
\* theory, and has left the timeline, the executing atoms and current_time
\* alone.
C16_ConstantDelayKeepsState ==
    [][(pc = "absorb" /\ ConstantDelayed /\ ret' = "raised") =>
          /\ adaptations' = adaptations
          /\ lra' = lra
          /\ UNCHANGED <<s_atms, e_atms, pulses, executing, current_time>>
    ]_vars

----------------------------------------------------------------------------
\* C17: after any sequence of operations, executing is exactly the set of
\* the active atoms (sigma true) a start notification was sent for and no
\* end notification yet; an atom the re-planning made inactive is not in it.
C17_ExecutingIsStartedNotEnded ==
    executing = {a \in sigma : a \in started /\ a \notin ended}

----------------------------------------------------------------------------
\* C18: if atom a is active and its start was dispatched, then after
\* failure({a}) returns normally (the solver found a plan in which a is not
\* active) the state is Executing when running, the timelines are the ones
\* built from the new plan, and executing no longer contains a.
C18_FailureRecovery ==
    [][\A a \in Atoms :
          (a \in started /\ failure(a)) =>
              /\ running => state' = "Executing"
              /\ s_atms' = BuildStart(val', sigma', current_time)
              /\ e_atms' = BuildEnd(val', sigma', current_time)
              /\ pulses' = BuildPulses(val', sigma', current_time)
              /\ a \notin executing']_vars

----------------------------------------------------------------------------
\* C19: dont_start_yet is idempotent for a repeated (atom, delay) pair:
\* whenever the listeners are about to be asked, for every request, passing
\* the request twice leaves dont_start as passing it once does, so
\* everything the executor does afterwards is the same (likewise for
\* dont_end_yet and dont_end).
C19_DelayIdempotent ==
    (pc = "loop" /\ HasDue) =>
        \A r \in Requests(Atoms) :
            /\ Insert(Insert(dont_start, r), r) = Insert(dont_start, r)
            /\ Insert(Insert(dont_end, r), r) = Insert(dont_end, r)

\* C19 witness: the listeners are about to be asked again while the request
\* dont_end_yet({b: 2}) made at the start of the interval is still held, so
\* the same pair can be passed once more
C19_Witness ==
    /\ pc = "loop"
    /\ HasDue
    /\ dont_end = [x \in {"b"} |-> 2]
    /\ "b" \in executing

----------------------------------------------------------------------------
\* the stored bounds ad2 are not looser than the stored bounds ad1
Tightened(ad1, ad2) ==
    \A a \in Atoms, n \in Names :
        ad1[a][n].has =>
            /\ ad2[a][n].has
            /\ ad2[a][n].lb >= ad1[a][n].lb
            /\ ad2[a][n].ub <= ad1[a][n].ub

\* the stored bounds between the two loops of the delay absorption: the start
\* delays of the pulse have been written, the end delays not yet
StartAbsorbed ==
    AbsorbStore(adaptations, DelayedStart(MinOf(pulses)), "start", dont_start)

\* C20: the stored bounds are never loosened: every write of a call leaves,
\* for every atom and expression, a lower bound not below and an upper bound
\* not above the stored ones, the two writes of a pulse that delays both the
\* start and the end of one impulse included.
C20_BoundsNeverLoosened ==
    [][/\ Tightened(adaptations, adaptations')
       /\ (AbsorbDelays \/ AbsorbUnsolvable) =>
              /\ Tightened(adaptations, StartAbsorbed)
              /\ Tightened(StartAbsorbed, adaptations')]_vars

----------------------------------------------------------------------------
\* the atoms found in a timeline
TimelineAtoms(tl) == UNION {tl[t] : t \in DOMAIN tl}

\* atom a is entirely in the past
InThePast(a) == EndValue(a, val) < current_time

\* the timelines hold exactly the start and end points, not before
\* current_time, of the active atoms
TimelineExact ==
    /\ \A a \in sigma :
          ~InThePast(a) =>
              /\ EndValue(a, val) \in DOMAIN e_atms
              /\ a \in e_atms[EndValue(a, val)]
              /\ (StartValue(a, val) >= current_time) <=>
                    /\ StartValue(a, val) \in DOMAIN s_atms
                    /\ a \in s_atms[StartValue(a, val)]
    /\ \A t \in DOMAIN s_atms :
          /\ s_atms[t] # {}
          /\ \A a \in s_atms[t] : a \in sigma /\ StartValue(a, val) = t /\ ~InThePast(a)
    /\ \A t \in DOMAIN e_atms :
          /\ e_atms[t] # {}
          /\ \A a \in e_atms[t] : a \in sigma /\ EndValue(a, val) = t
    /\ pulses = DOMAIN s_atms \cup DOMAIN e_atms
    /\ \A t \in pulses : t >= current_time

\* the last notification is the state of a solution
SolutionNotified ==
    /\ log # <<>>
    /\ log[Len(log)].k = "state"
    /\ log[Len(log)].s \in {"Idle", "Executing"}

\* a step that ends in solution_found: the first solve, the re-solve of the
\* pending requirements by a tick, the re-solve after the delays of a pulse
\* were absorbed (the last two notify the state of the solution last), or a
\* failure() that made an atom inactive
Rebuild ==
    \/ ~solved /\ solved'
    \/ pending_requirements /\ ~pending_requirements' /\ SolutionNotified'
    \/ pc = "absorb" /\ pc' = "loop" /\ SolutionNotified'
    \/ solved /\ sigma' # sigma

\* C21: immediately after every rebuild of the timelines (on solution_found,
\* also after an adapt() that succeeds) the timelines hold exactly the start
\* and end points >= current_time of the active atoms: inactive atoms and
\* atoms entirely in the past appear nowhere, an interval that has started
\* is only in e_atms, and every pulse is >= current_time.
C21_TimelineExact ==
    [][Rebuild => TimelineExact']_vars

\* C21 witness: the tick after an adapt() has rebuilt the timelines at a
\* current time at which the impulse is in the past and the interval has
\* started and not ended
C21_Witness ==
    /\ pc = "loop"
    /\ log = <<StateEvent("Adapting"), StateEvent("Executing")>>
    /\ sigma = Atoms
    /\ InThePast("a")
    /\ StartValue("b", val) < current_time
    /\ TimelineAtoms(s_atms) = {}
    /\ TimelineAtoms(e_atms) = {"b"}

----------------------------------------------------------------------------
\* C22: dont_start and dont_end are drained in the tick in which they were
\* populated: whenever a running tick() returns normally both are empty,
\* whatever atoms were passed to dont_start_yet / dont_end_yet.
C22_DelaysDrained ==
    TickDone => (DOMAIN dont_start = {} /\ DOMAIN dont_end = {})

----------------------------------------------------------------------------
\* C23: with several threads the writes of running and state by
\* start_execution and pause_execution are atomic with respect to each other
\* and to tick: after all calls have returned, state = Executing implies
\* running and state = Idle implies not running.
C23_StateRunningAtomic ==
    (pc = "idle" /\ inflight = {}) =>
        /\ state = "Executing" => running
        /\ state = "Idle" => ~running

----------------------------------------------------------------------------
\* C24: with the mutex, a listener that calls tick(), adapt() or failure()
\* on the same executor from inside a notification of tick() never acquires
\* the mutex: the call does not enter its body, and the tick does not go on;
\* a step in which the listeners call dont_start_yet / dont_end_yet is never
\* blocked.
C24_NestedCallNeverEnters ==
    [][/\ pc' # "nested"
       /\ (pc = "loop" /\ inflight' # {}) => pc' = "blocked"
       /\ (pc = "loop" /\ <<dont_start, dont_end>>' # <<dont_start, dont_end>>) =>
              pc' = "absorb" /\ inflight' = {}]_vars

\* C24 witness: a listener called adapt() from inside the ending
\* notification of the interval, and the call waits for the mutex its own
\* thread holds
C24_Witness ==
    /\ pc = "blocked"
    /\ inflight = {"adapt"}
    /\ "b" \in executing
    /\ log # <<>>
    /\ log[Len(log)].k = "ending"

----------------------------------------------------------------------------
\* C25: if an adaptation is pending at the entry of tick() and solving again
\* fails, tick() goes to Failed and returns at once: the call is over, with
\* no pulse dispatched, current_time not advanced and no tick notification.
C25_FailedResolveReturns ==
    [][(pending_requirements /\ ~pending_requirements' /\ inconsistent') =>
          /\ state' = "Failed"
          /\ pc' = "idle"
          /\ current_time' = current_time
          /\ \A j \in DOMAIN log' : log'[j].k = "state"]_vars

----------------------------------------------------------------------------
\* a step that enters tick()
TickEntry == pc = "idle" /\ ret' \in {"active", "early"}

\* C26: adapt() only goes back to root level, reads the script and marks the
\* adaptation pending (state, timelines and solution are left alone); the
\* next tick() solves again before it dispatches anything: it notifies
\* Adapting and, on success, the state of the solution (Executing when
\* running), with the timelines rebuilt from the new solution and nothing
\* dispatched yet, and the adaptation is no longer pending; a tick() entered
\* with no pending adaptation does not solve again.
C26_AdaptThenTick ==
    [][/\ adapt =>
              /\ pending_requirements'
              /\ UNCHANGED <<state, running, timeline_vars, val, sigma, current_time,
                             executing, adaptations>>
       /\ (TickEntry /\ pending_requirements) =>
              /\ ~pending_requirements'
              /\ ~inconsistent' =>
                    /\ state' = SolutionState
                    /\ log' = <<StateEvent("Adapting"), StateEvent(SolutionState)>>
                    /\ TimelineExact'
                    /\ UNCHANGED <<executing, hist_vars>>
       /\ (TickEntry /\ ~pending_requirements) =>
              /\ log' = <<>>
              /\ UNCHANGED <<state, timeline_vars, val, sigma>>]_vars

\* C26 witness: an adaptation made after the interval started has been
\* solved by the next tick, which moved the end of the interval and has not
\* dispatched anything yet
C26_Witness ==
    /\ pc = "loop"
    /\ ~pending_requirements
    /\ log = <<StateEvent("Adapting"), StateEvent("Executing")>>
    /\ executing = {"b"}
    /\ current_time = 1
    /\ pulses = {2}
    /\ e_atms = [t \in {2} |-> {"b"}]

----------------------------------------------------------------------------
\* C27: the start freeze is an upsert: when the start of an interval atom
\* with a non-constant START of value v is dispatched, the adaptation store
\* afterwards holds the bounds [v, v] for START, replacing the bounds stored
\* at creation or by a delay.
C27_StartFreezeUpsert ==
    [][\A a \in Atoms :
          (a \in started' \ started /\ is_interval(a) /\ a \notin constant) =>
              adaptations'[a].start =
                  [has |-> TRUE, lb |-> val[a].start, ub |-> val[a].start]]_vars

----------------------------------------------------------------------------
\* C28: no atom is started twice: the atoms a tick sends a start
\* notification for have not been sent one before, whatever delays,
\* adaptations and failures re-planned in between.
C28_StartedOnce ==
    [][Dispatch => StartingAt(MinOf(pulses)) \cap started = {}]_vars

----------------------------------------------------------------------------
\* the bool bounds re-asserted by the last propagate
BoolCalls == {c \in reasserted : c.itm = "flag"}
\* a clause is falsified when all its literals are false
Falsified(s, cl) == \A l \in cl : value(s, l) = "False"

\* C29: re-asserting a stored bool bound of value v for the expression backed
\* by literal l under reason r forces l to v: if l was undefined the clause
\* {l if v else not-l, not-r} is recorded and l takes the value v; if l had
\* the value v nothing is recorded and nothing fails; if l had the opposite
\* value the propagation fails with a conflict clause that is falsified
\* under the assignment.
C29_BoolReassert ==
    [][\A c \in BoolCalls' :
          LET l == get_lit(c.atm)
              v == bool_bounds[c.atm]
              want == IF v = "True" THEN l ELSE Not(l)
          IN  /\ value(sat, l) = "Undefined" =>
                   /\ {want, Not(c.reason)} \in recorded'
                   /\ value(sat', l) = v
              /\ value(sat, l) = v =>
                   /\ \A cl \in recorded' : l \notin cl /\ Not(l) \notin cl
                   /\ l \notin cnfl' /\ Not(l) \notin cnfl'
                   /\ value(sat', l) = v
              /\ value(sat, l) \notin {"Undefined", v} =>
                   /\ prop_ret' = "false"
                   /\ cnfl' # {}
                   /\ Falsified(sat', cnfl')]_vars

----------------------------------------------------------------------------
\* the adaptations whose bounds propagate(p) is to re-assert: on xi those
\* whose sigma_xi is true, on a sigma_xi literal that of its atom, on a
\* negated literal none
Guarded(p) ==
    IF p = xi THEN {a \in Atoms : value(sat, sigma_xi(a)) = "True"}
    ELSE {a \in Atoms : p = sigma_xi(a)}
\* the re-assertions of all their bounds, each with its reason
Due_Reassertions(p) ==
    UNION {{[atm |-> a, itm |-> i, reason |-> IF p = xi THEN sigma_xi(a) ELSE p] :
               i \in Items(a)} : a \in Guarded(p)}
\* the re-assertion c finds the solver against the stored bound
Conflicts(c) ==
    IF c.itm = "flag"
    THEN value(sat, get_lit(c.atm)) \notin {"Undefined", bool_bounds[c.atm]}
    ELSE /\ c.atm \notin constant
         /\ \/ adaptations[c.atm][c.itm].lb > lra[c.atm][c.itm].ub
            \/ adaptations[c.atm][c.itm].ub < lra[c.atm][c.itm].lb

\* C30, as claimed: propagate(p) re-asserts exactly the bounds of the guarded
\* adaptations, each with its reason; it returns false iff one of the
\* re-assertions conflicts, and then the conflict clause is populated.
C30_Original ==
    [][\A p \in BoundLits : propagate(p) =>
          /\ reasserted' = Due_Reassertions(p)
          /\ prop_ret' = "false" <=> \E c \in reasserted' : Conflicts(c)
          /\ prop_ret' = "false" => cnfl' # {}]_vars

\* C30, amended: propagate(p) re-asserts bounds of the guarded adaptations
\* only, each with its reason, and stops at the first conflict. It returns
\* false iff a bound of a guarded adaptation conflicts; then exactly one of
\* the re-assertions made conflicts and the conflict clause is populated,
\* while the bounds not yet visited are not re-asserted. When it returns
\* true every bound of the guarded adaptations was re-asserted.
C30_PropagateGuarded ==
    [][\A p \in BoundLits : propagate(p) =>
          /\ reasserted' \subseteq Due_Reassertions(p)
          /\ prop_ret' = "false" <=> \E c \in Due_Reassertions(p) : Conflicts(c)
          /\ prop_ret' = "false" =>
                /\ Cardinality({c \in reasserted' : Conflicts(c)}) = 1
                /\ cnfl' # {}
          /\ prop_ret' = "true" => reasserted' = Due_Reassertions(p)]_vars

\* propagate(xi) visited both adaptations and stopped at a conflict before
\* the last bound
C30_Witness ==
    /\ prop_ret = "false"
    /\ sat[xi_var] = "True"
    /\ \A a \in Atoms : (sat[sigma_xi_var(a)] = "True" /\ bool_bounds[a] # "none")
    /\ {c.atm : c \in reasserted} = Atoms
    /\ Cardinality(reasserted) = 3
    /\ cnfl # {}

----------------------------------------------------------------------------
\* C31: no activity starts in the past. An adaptation created by flaw_created
\* while current_time = T stores the bounds [T, +inf] on the start point of
\* its atom (AT for an impulse, START for an interval) and nothing else, under
\* a sigma_xi of its own with the clause {not sigma(a), not xi, sigma_xi};
\* and no atom has its start dispatched at a pulse before the time its flaw
\* was created.
C31_NoStartInThePast ==
    [][/\ \A a \in Atoms : created'[a] # created[a] =>
             /\ created'[a].time = current_time
             /\ created'[a].clause =
                   {Not(lit(<<"sigma", a>>)), Not(xi), sigma_xi(a)}
             /\ \A b \in Atoms \ {a} : sigma_xi(a) \notin created'[b].clause
             /\ adaptations'[a] =
                   [n \in Names |-> IF n = StartName(a)
                                    THEN [has |-> TRUE, lb |-> current_time, ub |-> PosInf]
                                    ELSE NoBounds]
       /\ Dispatch => \A a \in StartingAt(MinOf(pulses)) :
                         MinOf(pulses) >= created[a].time]_vars

\* an atom whose flaw was created at time 1 by an adapt() has started, after
\* an atom of the first problem
C31_Witness ==
    /\ created["a"].time = 0
    /\ created["b"].time = 1
    /\ started = Atoms
    /\ \E i \in Positions({"start"}) : log[i].atoms = {"b"} /\ log[i].t >= 1

----------------------------------------------------------------------------
\* C32: when the solver reports a solution and xi is false, the execution
\* failure is raised and no timeline is built. Otherwise xi is decided if it
\* was undefined, and when the handler returns normally the timelines have
\* been rebuilt from the current solution, the state is Executing if running
\* and Idle otherwise, and this state is the last one notified.
C32_SolutionFound ==
    [][solution_found =>
          /\ sat[xi_var] = "False" =>
                ret' = "raised" /\ UNCHANGED <<timeline_vars, state, log>>
          /\ sat[xi_var] = "Undefined" =>
                \/ sat'[xi_var] = "True"
                \/ ret' = "raised"
                \/ Len(log') >= 2
          /\ sat[xi_var] = "True" => sat' = sat /\ ret' # "raised"
          /\ ret' # "raised" =>
                /\ sat'[xi_var] # "False"
                /\ TimelineExact'
                /\ state' = (IF running THEN "Executing" ELSE "Idle")
                /\ log' # <<>>
                /\ log'[Len(log')] = StateEvent(state')
          /\ ret' = "raised" => UNCHANGED timeline_vars]_vars

\* the handler returned normally while running: the timeline of the earlier
\* solution was replaced by that of the reported one, in which the interval
\* has already begun and the impulse is in the past
C32_Witness ==
    /\ ret = "none"
    /\ log = <<StateEvent("Executing")>>
    /\ sat[xi_var] = "True"
    /\ current_time = 1
    /\ sigma = Atoms
    /\ val["a"].at = 0
    /\ val["b"].start = 0
    /\ s_atms = <<>>
    /\ e_atms = [t \in {MaxVal} |-> {"b"}]

----------------------------------------------------------------------------
\* the positions of the dispatch notifications in a log
DispatchPositions(lg) ==
    {i \in DOMAIN lg : lg[i].k \in {"starting", "ending", "start", "end"}}

\* C33: when the solver reports an inconsistent problem, start_atoms,
\* end_atoms and pulses are emptied, the state becomes Failed and Failed is
\* notified; as long as no new solution is found the timelines stay empty
\* and the ticks dispatch no atom.
C33_InconsistentProblem ==
    [][/\ (~inconsistent /\ inconsistent') =>
             /\ state' = "Failed"
             /\ log' # <<>>
             /\ log'[Len(log')] = StateEvent("Failed")
       /\ inconsistent' =>
             /\ s_atms' = <<>>
             /\ e_atms' = <<>>
             /\ pulses' = {}
             /\ UNCHANGED <<executing, hist_vars>>
             /\ DispatchPositions(log') \subseteq DispatchPositions(log)]_vars

\* a running tick was made on a problem found inconsistent while an atom
\* was executing: it ended with nothing dispatched
C33_Witness ==
    /\ inconsistent
    /\ running
    /\ TickDone
    /\ executing # {}
    /\ Positions({"starting", "ending", "start", "end"}) = {}

----------------------------------------------------------------------------
\* the time points of an atom that a tick dispatches
PointsOf(a) == IF is_impulse(a) THEN {"at"} ELSE {"start", "end"}
\* the time point n of atom a is in the timelines at a pulse that is due
DueNow(a, n) ==
    \E t \in pulses :
       /\ Due(t, current_time)
       /\ \/ n = StartName(a) /\ a \in StartingAt(t)
          \/ n = EndName(a) /\ a \in EndingAt(t)
\* the time point n of atom a may still come up in the loop of this tick: a
\* point the solver cannot move (a constant, or one frozen by a dispatch) if
\* it is at a due pulse, a point the solver can move as long as its lower
\* bound is not beyond the current time
Pending(a, n) ==
    /\ a \in sigma
    /\ IF a \in constant \/ lra[a][n].lb = lra[a][n].ub
       THEN DueNow(a, n)
       ELSE lra[a][n].lb <= current_time
\* the measure of what is left of a tick: the pending time points, and the
\* half step from the notifications to the absorption or dispatch
TickRank ==
    2 * Cardinality({x \in Atoms \X Names : x[2] \in PointsOf(x[1]) /\ Pending(x[1], x[2])})
        + (IF pc = "loop" THEN 1 ELSE 0)

\* C34: every tick() terminates, also with listeners that ask for a delay at
\* every notification. Inside a tick a step is always possible, and every
\* step that stays inside the tick makes the measure of the tick smaller: an
\* absorbed delay moves the lower bound of the point at least units_per_tick
\* later, beyond the current time, a dispatch freezes its points and removes
\* the pulse; the other steps leave the tick, by returning or by raising.
C34_TickTerminates ==
    /\ [](InTick => ENABLED TickSteps)
    /\ [][/\ (InTick /\ InTick') => TickRank' < TickRank
          /\ (pc = "absorb" /\ pc' = "loop" /\ lra' # lra /\ pulses' # {}) =>
                \A a \in DelayedNow : \A n \in PointsOf(a) :
                   lra'[a][n].lb > lra[a][n].lb =>
                      lra'[a][n].lb >= val[a][n] + units_per_tick]_vars

\* a tick has returned after two delays were absorbed and the problem solved
\* again twice inside it
C34_Witness ==
    /\ TickDone
    /\ Cardinality({i \in DOMAIN log : log[i] = StateEvent("Adapting")}) >= 2

----------------------------------------------------------------------------
\* C35: between operations (after a completed tick, a rebuild or a solver
\* event) every key of start_atoms and of end_atoms is a pulse, and pulses
\* is the union of the keys of start_atoms and end_atoms.
C35_TimelineKeys ==
    pc = "idle" =>
        /\ DOMAIN s_atms \subseteq pulses
        /\ DOMAIN e_atms \subseteq pulses
        /\ pulses = DOMAIN s_atms \cup DOMAIN e_atms

----------------------------------------------------------------------------
\* C36: after a completed tick every pulse left in pulses is at or after
\* current_time, whatever the pulse values and units_per_tick.
C36_PulsesNotBehind == TickDone => \A t \in pulses : t >= current_time

----------------------------------------------------------------------------
\* C37: current_time changes only in tick(). A tick() that runs with
\* running = true and returns normally adds exactly units_per_tick to it
\* and then notifies tick(new current_time), once and as its last
\* notification; every other step (start_execution, pause_execution, adapt,
\* failure, dont_start_yet, dont_end_yet, the solver events, a tick() that
\* returns at once or raises) leaves current_time as it is, so that
\* current_time never decreases.
TickReturns == pc = "loop" /\ pc' = "idle" /\ ret' = "done"
TickEvents(lg) == {i \in DOMAIN lg : lg[i].k = "tick"}
C37_TimeOnlyInTick ==
    [][/\ current_time' >= current_time
       /\ current_time' # current_time => TickReturns
       /\ TickReturns =>
             /\ running
             /\ current_time' = current_time + units_per_tick
             /\ TickEvents(log') = {Len(log')}
             /\ log'[Len(log')] = Event("tick", current_time', {}, "")
       /\ (pc' = "idle" /\ ret' # "done") => TickEvents(log') = {}
       /\ (pc = "loop" /\ running /\ pc' = "idle") => ret' \in {"done", "raised"}]_vars
C37_Witness ==
    /\ TickDone
    /\ current_time = 2 * units_per_tick
    /\ units_per_tick = 2
    /\ started # {}
    /\ log[Len(log)] = Event("tick", current_time, {}, "")

----------------------------------------------------------------------------
\* C38: whenever the state becomes Finished, with the horizon at or after
\* the end of every active atom, execution is over: no atom is executing
\* and no pulse at or before current_time is left in pulses.
HorizonCoversPlan == \A a \in sigma : val[a][EndName(a)] <= horizon
C38_FinishedIsOver ==
    [][(TickReturns /\ ReachedHorizon /\ HorizonCoversPlan) =>
          /\ state' = "Finished"
          /\ executing' = {}
          /\ \A t \in pulses' : t > current_time]_vars

----------------------------------------------------------------------------
\* A problem with deadlines: the problem itself bounds the end point of an
\* atom from above, so that slv.arith_bounds and the linear theory hold an
\* upper bound the executor never asserted.

\* the deadlines a problem may put on the end point of an atom
Deadlines == {1, PosInf}

\* the bounds l of the linear theory under the deadlines dl
WithDeadline(l, dl) ==
    [a \in Atoms |-> [n \in Names |->
        IF n = EndName(a) THEN [l[a][n] EXCEPT !.ub = Min(@, dl[a])] ELSE l[a][n]]]

\* The problem is read and solved for the first time, as in FirstSolve, its
\* atoms all non-constant and their end points under the deadlines dl.
FirstSolveDeadline ==
    /\ pc = "idle"
    /\ ~solved
    /\ adaptations' = [a \in Atoms |-> flaw_created(a)]
    /\ \E dl \in [Atoms -> Deadlines] :
          lra' = WithDeadline(Reassert(adaptations'), dl)
    /\ \E sg \in SUBSET Atoms : \E v \in Solutions(sg, {}, val, lra') :
          /\ sigma' = sg
          /\ val' = v
          /\ horizon' = HorizonOf(v, sg, 0)
          /\ build_timelines(v, sg)
    /\ constant' = {}
    /\ solved' = TRUE
    /\ state' = SolutionState
    /\ log' = <<StateEvent(SolutionState)>>
    /\ created' = [a \in Atoms |-> new_flaw(a)]
    /\ UNCHANGED timer
    /\ UNCHANGED <<running, pending_requirements, current_time, units_per_tick,
                   executing, dont_start, dont_end, pc, ret, hist_vars, inflight, theory_vars>>

\* the executor on a problem with deadlines: the first solution, then
\* start_execution and ticks
NextDeadline ==
    \/ FirstSolveDeadline
    \/ start_execution
    \/ TickBegin
    \/ NotifyStartingEnding
    \/ AbsorbRaise
    \/ AbsorbDelays
    \/ AbsorbUnsolvable
    \/ Dispatch
    \/ FinishTick

SpecDeadline == Init /\ [][NextDeadline]_vars

\* the stored bound b is an empty interval
IllFormed(b) == b.has /\ b.lb > b.ub

\* every bound of the adaptation store has lb <= ub
C39_BoundsWellFormed ==
    \A a \in Atoms : \A n \in Names : ~IllFormed(adaptations[a][n])

\* C39: every arithmetic bound created at flaw time or written by a freeze
\* is well formed (lb <= ub), and a stored bound stays well formed unless a
\* delay absorption writes a lower bound above its upper bound: a bound
\* becomes an empty interval only in the absorption of a delay d asked for
\* its time point, which stores lb = value + max(units_per_tick, d) next to
\* the upper bound already stored or, for a new entry, next to the solver's
\* current upper bound, whether or not lb exceeds it.
C39_WellFormedUnlessDelayed ==
    [][\A a \in Atoms : \A n \in Names :
          (IllFormed(adaptations'[a][n]) /\ adaptations'[a][n] # adaptations[a][n]) =>
              /\ pc = "absorb"
              /\ adaptations'[a][n].lb \in BoundsOn(a, n)
              /\ adaptations'[a][n].ub =
                    IF adaptations[a][n].has THEN adaptations[a][n].ub ELSE lra[a][n].ub]_vars
C39_Witness ==
    /\ IllFormed(adaptations["b"]["end"])
    /\ adaptations["b"]["end"] = [has |-> TRUE, lb |-> 2, ub |-> 1]
    /\ val["b"].end = 1
    /\ "b" \in executing
    /\ ret = "raised"

----------------------------------------------------------------------------
\* ratio::time::timer. One client thread calls start() and stop(); each
\* statement of the two functions is a step, and so is each statement of
\* the loop the timer thread runs. timer.at is the statement the client is
\* at, timer.caller tells a stop() called by start() from one called by the
\* client, timer.last is the last call that returned, timer.thread[i] is
\* the statement thread i is at ("unborn" before its creation, "done" after
\* its loop), timer.calls[i] the invocations of the callback by thread i.

executor_vars == <<exec_vars, solver_vars, pc, ret, log, hist_vars, inconsistent,
                   inflight, theory_vars, created>>

\* the executor is not looked at; the constructor leaves the atomic flag
\* executing without a value, so that its first load may give either one
InitTimer ==
    /\ state = "Reasoning"
    /\ running = FALSE
    /\ pending_requirements = FALSE
    /\ current_time = 0
    /\ units_per_tick = 1
    /\ executing = {}
    /\ adaptations = [a \in Atoms |-> [n \in Names |-> NoBounds]]
    /\ dont_start = <<>>
    /\ dont_end = <<>>
    /\ s_atms = <<>>
    /\ e_atms = <<>>
    /\ pulses = {}
    /\ solved = FALSE
    /\ sigma = {}
    /\ constant = {}
    /\ val = [a \in Atoms |-> NoValue]
    /\ horizon = 0
    /\ lra = [a \in Atoms |-> FreeLra]
    /\ pc = "idle"
    /\ ret = "none"
    /\ log = <<>>
    /\ started = {}
    /\ inconsistent = FALSE
    /\ inflight = {}
    /\ ended = {}
    /\ sat = [v \in SatVars |-> "Undefined"]
    /\ bool_bounds = [a \in Atoms |-> "none"]
    /\ recorded = {}
    /\ cnfl = {}
    /\ reasserted = {}
    /\ prop_ret = "none"
    /\ created = [a \in Atoms |-> NoFlaw]
    /\ timer \in {[NoTimer EXCEPT !.executing = e] : e \in BOOLEAN}

\* timer::start is called: `if (executing.load()) stop();`
timer_start ==
    /\ timer.at = "idle"
    /\ timer.starts < MaxStarts
    /\ timer' = IF timer.executing
                THEN [timer EXCEPT !.at = "stop_store", !.caller = "start"]
                ELSE [timer EXCEPT !.at = "start_store"]
    /\ UNCHANGED executor_vars

\* timer::stop is called by the client
timer_stop ==
    /\ timer.at = "idle"
    /\ timer' = [timer EXCEPT !.at = "stop_store", !.caller = "client"]
    /\ UNCHANGED executor_vars

\* timer::stop: `executing.store(false)`
stop_store ==
    /\ timer.at = "stop_store"
    /\ timer' = [timer EXCEPT !.executing = FALSE, !.at = "stop_join"]
    /\ UNCHANGED executor_vars

\* where stop() returns to, and the call that has returned then
stop_return(t) ==
    IF t.caller = "start" THEN [t EXCEPT !.at = "start_store"]
    ELSE [t EXCEPT !.at = "idle", !.last = "stop"]

\* mutant of stop_join: the thread is detached, not joined
stop_join_Detach ==
    /\ timer.at = "stop_join"
    /\ timer' = stop_return([timer EXCEPT !.th = 0])
    /\ UNCHANGED executor_vars

\* timer::stop: `if (th.joinable()) th.join();` waits for the end of the
\* thread
stop_join ==
    /\ timer.at = "stop_join"
    /\ timer.th # 0 => timer.thread[timer.th] = "done"
    /\ timer' = stop_return([timer EXCEPT !.th = 0])
    /\ UNCHANGED executor_vars

\* timer::start: `executing.store(true)`
start_store ==
    /\ timer.at = "start_store"
    /\ timer' = [timer EXCEPT !.executing = TRUE, !.at = "start_time"]
    /\ UNCHANGED executor_vars

\* timer::start: `tick_time = now() + milliseconds(tick_duration)`, one
\* tick after the start
start_time ==
    /\ timer.at = "start_time"
    /\ timer' = [timer EXCEPT !.tick_time = 1, !.at = "start_spawn"]
    /\ UNCHANGED executor_vars

\* timer::start: `th = std::thread(...)`; the assignment to a joinable
\* thread calls std::terminate
start_spawn ==
    /\ timer.at = "start_spawn"
    /\ timer' = IF timer.th # 0
                THEN [timer EXCEPT !.at = "terminate"]
                ELSE [timer EXCEPT !.th = timer.starts + 1,
                                   !.thread[timer.starts + 1] = "test",
                                   !.starts = @ + 1,
                                   !.at = "idle",
                                   !.last = "start"]
    /\ UNCHANGED executor_vars

\* the thread: `while (executing.load())`
thread_test(i) ==
    /\ timer.thread[i] = "test"
    /\ timer' = [timer EXCEPT !.thread[i] = IF timer.executing THEN "fun" ELSE "done"]
    /\ UNCHANGED executor_vars

\* the thread: `fun();`
thread_fun(i) ==
    /\ timer.thread[i] = "fun"
    /\ timer' = [timer EXCEPT !.calls[i] = Min(@ + 1, MaxTicks), !.thread[i] = "sleep"]
    /\ UNCHANGED executor_vars

\* the thread: `sleep_until(tick_time); tick_time += milliseconds(tick_duration);`
thread_sleep(i) ==
    /\ timer.thread[i] = "sleep"
    /\ timer' = [timer EXCEPT !.tick_time = Min(@ + 1, MaxTicks), !.thread[i] = "test"]
    /\ UNCHANGED executor_vars

\* a step of a timer thread
thread_step == \E i \in Threads : thread_test(i) \/ thread_fun(i) \/ thread_sleep(i)

NextTimer ==
    \/ timer_start
    \/ timer_stop
    \/ stop_store
    \/ stop_join
    \/ start_store
    \/ start_time
    \/ start_spawn
    \/ \E i \in Threads : thread_test(i)
    \/ \E i \in Threads : thread_fun(i)
    \/ \E i \in Threads : thread_sleep(i)

\* the scheduler lets a thread that can run do so, and sleep_until and the
\* callback return
SpecTimer == InitTimer /\ [][NextTimer]_vars /\ WF_vars(thread_step)

\* the threads inside their loop
Live == {i \in Threads : timer.thread[i] \in {"test", "fun", "sleep"}}

\* C40: timer thread protocol. start() on a running timer first stops and
\* joins the previous thread, so that at most one timer thread exists at
\* any time (and the assignment to th never finds a joinable thread); after
\* stop() has returned, and until the next start(), no thread is left to
\* invoke the callback, and a callback is invoked only by the thread of the
\* last start(); a thread that finds the timer executing invokes the
\* callback before it sleeps (the first invocation does not wait for a
\* tick); and while the timer stays started the callback is invoked again
\* and again.
C40_TimerProtocol ==
    /\ [](/\ Cardinality(Live) <= 1
          /\ timer.at # "terminate"
          /\ timer.last # "start" => Live = {}
          /\ \A i \in Threads : timer.thread[i] = "sleep" => timer.calls[i] >= 1)
    /\ [][\A i \in Threads :
            /\ timer.calls'[i] # timer.calls[i] =>
                  /\ timer.last = "start"
                  /\ timer.th = i
                  /\ timer.calls'[i] = timer.calls[i] + 1
            /\ (timer.thread[i] = "test" /\ timer.executing /\ timer.thread'[i] # "test")
                  => timer.thread'[i] = "fun"]_vars
    /\ (<>[](timer.at = "idle" /\ timer.last = "start"))
          => []<>(\E i \in Threads : timer.thread[i] = "fun")
C40_Witness ==
    /\ timer.starts = 2
    /\ timer.at = "idle"
    /\ timer.last = "start"
    /\ timer.thread[1] = "done"
    /\ timer.calls[1] >= 1
    /\ timer.thread[2] = "sleep"
    /\ timer.calls[2] >= 2
    /\ timer.th = 2


====
